---------------------------- MODULE Spec2Model ----------------------------
(***************************************************************************)
(* Tracked-allocation engine of the memory_control module:                 *)
(*   SafeNumeric        (thread_safe.h)     counters, both policies        *)
(*   MemoryTracker / BasicMemoryTracker / DetailedMemoryTracker            *)
(*                      (memory_tracker.h)  tracking strategies            *)
(*   MemoryManager      (memory_manager.h)  allocation engine              *)
(*                                                                         *)
(* The specifications share the variables:                                 *)
(*   SpecAllocFree  engine, alloc_static / free_static calls only          *)
(*   Spec           engine, every modelled call                            *)
(*   SpecTracker    the tracking strategy called directly                  *)
(*   SpecDetailed   DetailedMemoryTracker with its pointer-carrying calls  *)
(*   SpecConc       threads calling the tracker under the atomic policy,   *)
(*                  one atomic counter operation per step                  *)
(*   SpecAligned    engine, alloc_aligned_static / free_aligned_static     *)
(*   SpecExchange   SafeNumeric::exchange_if_greater, concurrent callers   *)
(*   SpecConditional SafeNumeric::conditional_increment with concurrent    *)
(*                  decrement and set                                      *)
(*   SpecNumeric    the arithmetic of SafeNumeric under both policies      *)
(*   SpecSizes      engine, the sizes reported without padding             *)
(*   SpecRealloc    track_reallocation with its arguments recorded         *)
(*   SpecPaired     tracker calls paired with outstanding blocks           *)
(*   SpecReset      reset_stats among the calls of each strategy           *)
(*   SpecRegistry   the calls that change the detailed registry            *)
(*   SpecMutex      threads on the detailed registry, one step per         *)
(*                  mutex acquisition or guarded section                   *)
(*   SpecLockFree   the retry loops of SafeNumeric against a setter        *)
(*   SpecErrors     error handler installation and reports                 *)
(*   SpecPointerless, SpecUnregistered, SpecReregister                     *)
(*                  the detailed tracker called without a pointer, for a   *)
(*                  pointer without a record, for one that has a record    *)
(*   SpecPairedReset paired tracker calls with reset_stats between them    *)
(*   SpecRealign    engine, realloc_aligned_static                         *)
(*   SpecArrays     memnew_arr_template, memarr_len, memdelete_arr         *)
(***************************************************************************)
EXTENDS Integers, Naturals, Sequences, FiniteSets, Bags, TLC

(***************************************************************************)
(* Bounds of the model.                                                    *)
(***************************************************************************)
\* number of distinct addresses the system allocator can hand out
MaxBlocks == 2
\* largest request size
MaxSize == 2
\* cap on the successful allocations of a run of the engine
MaxCount == 2
\* cap on the reallocations of a run of the engine or of the threads
MaxReallocs == 1
\* memory_uint64_t counters, memory_size_t sizes and addresses wrap modulo
\* 2^64; the model keeps the wrap-around at a reduced width, wide enough
\* that the bytes the engine's blocks of MaxSize bytes hold at once never
\* wrap
WordBits == 5
\* threads of the concurrent specification
MaxThreads == 2
\* cycles each of them runs
MaxCycles == 2
\* distinct pointers handed to the pointer-carrying tracker calls
MaxPtrs == 3
\* cap on the allocations of a run of the tracker called directly
MaxTracked == 3
\* cap on the deallocation and reallocation counters of such a run
MaxEvents == 2

Mod == 2 ^ WordBits
nullptr == 0
Ptrs == 1 .. MaxBlocks
Sizes == 1 .. MaxSize

(***************************************************************************)
(* memory_config.h                                                         *)
(***************************************************************************)
SizeofUint64 == 8
AlignofUint64 == 8
AlignofMaxAlign == 16

SIZE_OFFSET == 0

ELEMENT_OFFSET ==
    IF (SIZE_OFFSET + SizeofUint64) % AlignofUint64 = 0
    THEN SIZE_OFFSET + SizeofUint64
    ELSE (SIZE_OFFSET + SizeofUint64) + AlignofUint64
         - ((SIZE_OFFSET + SizeofUint64) % AlignofUint64)

DATA_OFFSET ==
    IF (ELEMENT_OFFSET + SizeofUint64) % AlignofMaxAlign = 0
    THEN ELEMENT_OFFSET + SizeofUint64
    ELSE (ELEMENT_OFFSET + SizeofUint64) + AlignofMaxAlign
         - ((ELEMENT_OFFSET + SizeofUint64) % AlignofMaxAlign)

\* validate_config: the combinations MEMORY_VALIDATE_CONFIG accepts
validate_config(c) ==
    /\ ~(c.ENABLE_TRACKING /\ c.TRACKING_LEVEL = "NONE")
    /\ ~(c.ENABLE_PADDING /\ c.PADDING_POLICY = "NONE")

\* MemoryConfig<...>: the switches the engine and the trackers read, with
\* MEMORY_DEBUG_ENABLED, the build flag DEBUG_ONLY padding resolves to.
MemoryConfig(tracking, padding, level, policy, debug) ==
    [ ENABLE_TRACKING |-> tracking, ENABLE_PADDING |-> padding,
      TRACKING_LEVEL |-> level, PADDING_POLICY |-> policy,
      MEMORY_DEBUG_ENABLED |-> debug ]

\* DefaultConfig = MemoryConfig<>: every default follows MEMORY_DEBUG_ENABLED
DefaultConfig(debug) ==
    MemoryConfig(debug, debug, IF debug THEN "BASIC" ELSE "NONE",
                 IF debug THEN "DEBUG_ONLY" ELSE "NONE", debug)

DebugConfig == MemoryConfig(TRUE, TRUE, "DETAILED", "ALWAYS", TRUE)

EmbeddedConfig == MemoryConfig(FALSE, FALSE, "NONE", "NONE", FALSE)

ThreadSafeConfig(debug) == MemoryConfig(TRUE, TRUE, "BASIC", "DEBUG_ONLY", debug)

\* a user configuration that leaves padding to the caller of each call
CallerPaddedConfig(level) == MemoryConfig(TRUE, TRUE, level, "CONFIGURABLE", FALSE)

\* the configurations MemoryManager<Config> is instantiated with
Configs ==
    { c \in { DefaultConfig(TRUE), DefaultConfig(FALSE), DebugConfig,
              EmbeddedConfig, ThreadSafeConfig(TRUE), ThreadSafeConfig(FALSE),
              CallerPaddedConfig("BASIC") } :
        validate_config(c) }

(***************************************************************************)
(* thread_safe.h: SafeNumeric<memory_uint64_t, Policy>.  Each operator     *)
(* gives the value stored after the operation, which is also the value     *)
(* the operation returns (the post-update value).  Under STD_ATOMIC each   *)
(* of add / sub / increment is one fetch_add / fetch_sub, hence one step.  *)
(***************************************************************************)
add(value, p_value) == (value + p_value) % Mod

sub(value, p_value) == (value + Mod - (p_value % Mod)) % Mod

\* mutant: increment() behaving as conditional_increment(), which leaves a
\* zero counter at zero
increment_if_nonzero(value) == IF value = 0 THEN 0 ELSE (value + 1) % Mod

increment(value) == (value + 1) % Mod

\* mutant: the comparison of exchange_if_greater inverted
exchange_if_greater_inverted(value, p_value) ==
    IF p_value < value THEN p_value ELSE value

exchange_if_greater(value, p_value) == IF p_value > value THEN p_value ELSE value

\* mutant: the exchange stores the desired value whatever the atomic holds
compare_exchange_weak_blind(value, expected, desired) ==
    [ ok |-> TRUE, value |-> desired, expected |-> expected ]

\* mutant: a failed exchange leaves expected as it was
compare_exchange_weak_stale(value, expected, desired) ==
    IF value = expected
    THEN [ ok |-> TRUE, value |-> desired, expected |-> expected ]
    ELSE [ ok |-> FALSE, value |-> value, expected |-> expected ]

\* std::atomic<T>::compare_exchange_weak(expected, desired): the value the
\* atomic holds afterwards, the result and what expected holds afterwards.
\* A spurious failure leaves the atomic and expected as they are when they
\* agree, so it is a step that changes nothing.
compare_exchange_weak(value, expected, desired) ==
    IF value = expected
    THEN [ ok |-> TRUE, value |-> desired, expected |-> expected ]
    ELSE [ ok |-> FALSE, value |-> value, expected |-> value ]

(***************************************************************************)
(* memory_tracker.h                                                        *)
(***************************************************************************)
VARIABLES
    Config,        \* the configuration type the engine is instantiated with
    tracker,       \* static members of the tracker selected by Config
    heap,          \* blocks obtained from the system allocator, by user pointer
    requested,     \* history: size passed to the latest alloc/realloc per pointer
    call,          \* the last completed call: name, arguments, result and the
                   \* tracker calls it made
    reports,       \* bag of the reports the last call sent to the error handler
    hist,          \* history of the engine calls: successful allocations,
                   \* frees, reallocations, resets and the shape of the sequence
    thist,         \* history of the tracker: largest usage held since the last
                   \* reset, resets, subtractions that exceeded the usage
    outstanding,   \* history: pointer-tracked allocations not yet deallocated
    sinceReset,    \* history: those of them registered after the last reset
    threads,       \* the bag of the threads' positions inside their calls,
                   \* with their locals
    aligned,       \* SpecAligned: the block alloc_aligned_static obtained and
                   \* the addresses computed from it
    numeric,       \* the SafeNumeric objects the counter specifications call
    allocations_mutex_,  \* DetailedMemoryTracker::allocations_mutex_: TRUE
                   \* while a thread holds it
    error_handling, \* error_handling.h: g_memory_error_handler, the handler
                   \* the last report was handed to and whether std::abort
                   \* has been called
    arrays         \* the arrays of memnew_arr_template: the element count
                   \* passed for each, and the last answer of memarr_len

\* namespace-scope and static objects outside the counters, and the arrays
statics == << allocations_mutex_, error_handling, arrays >>

\* the state outside the engine and its tracker
others == << aligned, numeric, statics >>

vars == << Config, tracker, heap, requested, call, reports, hist, thist,
           outstanding, sinceReset, threads, others >>

EmptyMap == [ x \in {} |-> 0 ]

Put(f, k, v) == [ x \in DOMAIN f \cup {k} |-> IF x = k THEN v ELSE f[x] ]

Drop(f, k) == [ x \in DOMAIN f \ {k} |-> f[x] ]

\* the static members, all value-initialised
TrackerInit ==
    [ current_usage_ |-> 0,
      peak_usage_ |-> 0,
      allocation_count_ |-> 0,
      deallocation_count_ |-> 0,
      reallocation_count_ |-> 0,
      next_allocation_id_ |-> 0,
      allocations_ |-> EmptyMap ]

AllocationInfo(s, f, l, func, ts, id) ==
    [ size |-> s, file |-> f, line |-> l, function |-> func,
      timestamp |-> ts, allocation_id |-> id ]

\* BasicMemoryTracker::track_allocation
Basic_track_allocation(c, T, size) ==
    IF c.ENABLE_TRACKING
    THEN LET new_usage == add(T.current_usage_, size)
         IN  [ T EXCEPT !.current_usage_ = new_usage,
                        !.peak_usage_ = exchange_if_greater(@, new_usage),
                        !.allocation_count_ = increment(@) ]
    ELSE T

\* mutant: track_deallocation without deallocation_count_.increment()
Basic_track_deallocation_uncounted(c, T, size) ==
    IF c.ENABLE_TRACKING
    THEN [ T EXCEPT !.current_usage_ = sub(@, size) ]
    ELSE T

\* BasicMemoryTracker::track_deallocation
Basic_track_deallocation(c, T, size) ==
    IF c.ENABLE_TRACKING
    THEN [ T EXCEPT !.current_usage_ = sub(@, size),
                    !.deallocation_count_ = increment(@) ]
    ELSE T

\* mutant: track_reallocation without peak_usage_.exchange_if_greater(new_usage)
Basic_track_reallocation_no_peak(c, T, old_size, new_size) ==
    IF c.ENABLE_TRACKING
    THEN LET U == IF new_size > old_size
                  THEN [ T EXCEPT !.current_usage_ = add(@, new_size - old_size) ]
                  ELSE IF old_size > new_size
                  THEN [ T EXCEPT !.current_usage_ = sub(@, old_size - new_size) ]
                  ELSE T
         IN  [ U EXCEPT !.reallocation_count_ = increment(@) ]
    ELSE T

\* mutant: a shrinking track_reallocation subtracts old_size
Basic_track_reallocation_sub_old(c, T, old_size, new_size) ==
    IF c.ENABLE_TRACKING
    THEN LET U == IF new_size > old_size
                  THEN LET new_usage == add(T.current_usage_, new_size - old_size)
                       IN  [ T EXCEPT !.current_usage_ = new_usage,
                                      !.peak_usage_ = exchange_if_greater(@, new_usage) ]
                  ELSE IF old_size > new_size
                  THEN [ T EXCEPT !.current_usage_ = sub(@, old_size) ]
                  ELSE T
         IN  [ U EXCEPT !.reallocation_count_ = increment(@) ]
    ELSE T

\* mutant: track_reallocation without the old_size > new_size branch
Basic_track_reallocation_grow_only(c, T, old_size, new_size) ==
    IF c.ENABLE_TRACKING
    THEN LET U == IF new_size > old_size
                  THEN LET new_usage == add(T.current_usage_, new_size - old_size)
                       IN  [ T EXCEPT !.current_usage_ = new_usage,
                                      !.peak_usage_ = exchange_if_greater(@, new_usage) ]
                  ELSE T
         IN  [ U EXCEPT !.reallocation_count_ = increment(@) ]
    ELSE T

\* BasicMemoryTracker::track_reallocation
Basic_track_reallocation(c, T, old_size, new_size) ==
    IF c.ENABLE_TRACKING
    THEN LET U == IF new_size > old_size
                  THEN LET new_usage == add(T.current_usage_, new_size - old_size)
                       IN  [ T EXCEPT !.current_usage_ = new_usage,
                                      !.peak_usage_ = exchange_if_greater(@, new_usage) ]
                  ELSE IF old_size > new_size
                  THEN [ T EXCEPT !.current_usage_ = sub(@, old_size - new_size) ]
                  ELSE T
         IN  [ U EXCEPT !.reallocation_count_ = increment(@) ]
    ELSE T

\* mutant: reset_stats without peak_usage_.set(0)
Basic_reset_stats_keeps_peak(c, T) ==
    IF c.ENABLE_TRACKING
    THEN [ T EXCEPT !.current_usage_ = 0,
                    !.allocation_count_ = 0,
                    !.deallocation_count_ = 0,
                    !.reallocation_count_ = 0 ]
    ELSE T

\* BasicMemoryTracker::reset_stats
Basic_reset_stats(c, T) ==
    IF c.ENABLE_TRACKING
    THEN [ T EXCEPT !.current_usage_ = 0,
                    !.peak_usage_ = 0,
                    !.allocation_count_ = 0,
                    !.deallocation_count_ = 0,
                    !.reallocation_count_ = 0 ]
    ELSE T

\* mutant: the overload without a pointer storing a record under nullptr
Detailed_track_allocation_registers(c, T, size) ==
    IF c.ENABLE_TRACKING
    THEN LET new_usage == add(T.current_usage_, size)
             alloc_id == increment(T.next_allocation_id_)
         IN  [ T EXCEPT !.current_usage_ = new_usage,
                        !.peak_usage_ = exchange_if_greater(@, new_usage),
                        !.allocation_count_ = increment(@),
                        !.next_allocation_id_ = alloc_id,
                        !.allocations_ =
                            Put(@, nullptr, AllocationInfo(size, "(null)", 0, "(null)",
                                                           0, alloc_id)) ]
    ELSE T

\* DetailedMemoryTracker::track_allocation (the overload without a pointer)
Detailed_track_allocation(c, T, size) ==
    IF c.ENABLE_TRACKING
    THEN LET new_usage == add(T.current_usage_, size)
         IN  [ T EXCEPT !.current_usage_ = new_usage,
                        !.peak_usage_ = exchange_if_greater(@, new_usage),
                        !.allocation_count_ = increment(@),
                        !.next_allocation_id_ = increment(@) ]
    ELSE T

\* DetailedMemoryTracker::track_allocation_with_ptr
track_allocation_with_ptr(c, T, ptr, size, site) ==
    IF c.ENABLE_TRACKING /\ c.TRACKING_LEVEL = "DETAILED"
    THEN LET new_usage == add(T.current_usage_, size)
             alloc_id == increment(T.next_allocation_id_)
             timestamp == 0
         IN  [ T EXCEPT !.current_usage_ = new_usage,
                        !.peak_usage_ = exchange_if_greater(@, new_usage),
                        !.allocation_count_ = increment(@),
                        !.next_allocation_id_ = alloc_id,
                        !.allocations_ =
                            Put(@, ptr, AllocationInfo(size, site.file, site.line,
                                                       site.function, timestamp,
                                                       alloc_id)) ]
    ELSE T

\* DetailedMemoryTracker::track_deallocation (the overload without a pointer)
Detailed_track_deallocation(c, T, size) ==
    IF c.ENABLE_TRACKING
    THEN [ T EXCEPT !.current_usage_ = sub(@, size),
                    !.deallocation_count_ = increment(@) ]
    ELSE T

\* mutant: track_deallocation_with_ptr without allocations_.erase(it)
track_deallocation_with_ptr_no_erase(c, T, ptr) ==
    IF c.ENABLE_TRACKING /\ c.TRACKING_LEVEL = "DETAILED"
    THEN LET U == IF ptr \in DOMAIN T.allocations_
                  THEN [ T EXCEPT !.current_usage_ = sub(@, T.allocations_[ptr].size) ]
                  ELSE T
         IN  [ U EXCEPT !.deallocation_count_ = increment(@) ]
    ELSE T

\* mutant: track_deallocation_with_ptr without current_usage_.sub(it->second.size)
track_deallocation_with_ptr_no_sub(c, T, ptr) ==
    IF c.ENABLE_TRACKING /\ c.TRACKING_LEVEL = "DETAILED"
    THEN LET U == IF ptr \in DOMAIN T.allocations_
                  THEN [ T EXCEPT !.allocations_ = Drop(@, ptr) ]
                  ELSE T
         IN  [ U EXCEPT !.deallocation_count_ = increment(@) ]
    ELSE T

\* mutant: deallocation_count_.increment() made only when a record was found
track_deallocation_with_ptr_found_only(c, T, ptr) ==
    IF c.ENABLE_TRACKING /\ c.TRACKING_LEVEL = "DETAILED"
    THEN IF ptr \in DOMAIN T.allocations_
         THEN [ T EXCEPT !.current_usage_ = sub(@, T.allocations_[ptr].size),
                         !.allocations_ = Drop(@, ptr),
                         !.deallocation_count_ = increment(@) ]
         ELSE T
    ELSE T

\* DetailedMemoryTracker::track_deallocation_with_ptr
track_deallocation_with_ptr(c, T, ptr) ==
    IF c.ENABLE_TRACKING /\ c.TRACKING_LEVEL = "DETAILED"
    THEN LET U == IF ptr \in DOMAIN T.allocations_
                  THEN [ T EXCEPT !.current_usage_ = sub(@, T.allocations_[ptr].size),
                                  !.allocations_ = Drop(@, ptr) ]
                  ELSE T
         IN  [ U EXCEPT !.deallocation_count_ = increment(@) ]
    ELSE T

\* DetailedMemoryTracker::track_reallocation
Detailed_track_reallocation(c, T, old_size, new_size) ==
    IF c.ENABLE_TRACKING
    THEN LET U == IF new_size > old_size
                  THEN LET new_usage == add(T.current_usage_, new_size - old_size)
                       IN  [ T EXCEPT !.current_usage_ = new_usage,
                                      !.peak_usage_ = exchange_if_greater(@, new_usage) ]
                  ELSE IF old_size > new_size
                  THEN [ T EXCEPT !.current_usage_ = sub(@, old_size - new_size) ]
                  ELSE T
         IN  [ U EXCEPT !.reallocation_count_ = increment(@) ]
    ELSE T

\* mutant: reset_stats without allocations_.clear()
Detailed_reset_stats_no_clear(c, T) ==
    IF c.ENABLE_TRACKING
    THEN [ T EXCEPT !.current_usage_ = 0,
                    !.peak_usage_ = 0,
                    !.allocation_count_ = 0,
                    !.deallocation_count_ = 0,
                    !.reallocation_count_ = 0,
                    !.next_allocation_id_ = 0 ]
    ELSE T

\* DetailedMemoryTracker::reset_stats
Detailed_reset_stats(c, T) ==
    IF c.ENABLE_TRACKING
    THEN [ T EXCEPT !.current_usage_ = 0,
                    !.peak_usage_ = 0,
                    !.allocation_count_ = 0,
                    !.deallocation_count_ = 0,
                    !.reallocation_count_ = 0,
                    !.next_allocation_id_ = 0,
                    !.allocations_ = EmptyMap ]
    ELSE T


\* MemoryTrackerType<Config>: the strategy std::conditional_t selects
TrackerType_track_allocation(c, T, size) ==
    IF c.TRACKING_LEVEL = "NONE" THEN T
    ELSE IF c.TRACKING_LEVEL = "BASIC" THEN Basic_track_allocation(c, T, size)
    ELSE Detailed_track_allocation(c, T, size)

TrackerType_track_deallocation(c, T, size) ==
    IF c.TRACKING_LEVEL = "NONE" THEN T
    ELSE IF c.TRACKING_LEVEL = "BASIC" THEN Basic_track_deallocation(c, T, size)
    ELSE Detailed_track_deallocation(c, T, size)

TrackerType_track_reallocation(c, T, old_size, new_size) ==
    IF c.TRACKING_LEVEL = "NONE" THEN T
    ELSE IF c.TRACKING_LEVEL = "BASIC"
    THEN Basic_track_reallocation(c, T, old_size, new_size)
    ELSE Detailed_track_reallocation(c, T, old_size, new_size)

TrackerType_reset_stats(c, T) ==
    IF c.TRACKING_LEVEL = "NONE" THEN T
    ELSE IF c.TRACKING_LEVEL = "BASIC" THEN Basic_reset_stats(c, T)
    ELSE Detailed_reset_stats(c, T)

\* get_current_usage of the three strategies
get_current_usage(c, T) ==
    IF c.TRACKING_LEVEL = "NONE" THEN 0
    ELSE IF c.ENABLE_TRACKING THEN T.current_usage_ ELSE 0

\* get_peak_usage of the three strategies
get_peak_usage(c, T) ==
    IF c.TRACKING_LEVEL = "NONE" THEN 0
    ELSE IF c.ENABLE_TRACKING THEN T.peak_usage_ ELSE 0

\* get_allocation_count of the three strategies
get_allocation_count(c, T) ==
    IF c.TRACKING_LEVEL = "NONE" THEN 0
    ELSE IF c.ENABLE_TRACKING THEN T.allocation_count_ ELSE 0

\* MemoryStats{}: every field zero
MemoryStats ==
    [ total_allocated |-> 0, total_freed |-> 0, current_usage |-> 0,
      peak_usage |-> 0, allocation_count |-> 0, deallocation_count |-> 0,
      reallocation_count |-> 0 ]

\* mutant: the no-op strategy counts the allocations it is told of
get_stats_counting(c, T) ==
    IF c.TRACKING_LEVEL = "NONE"
    THEN [ MemoryStats EXCEPT !.allocation_count = hist.allocs % Mod,
                              !.total_allocated = hist.allocs % Mod ]
    ELSE IF ~c.ENABLE_TRACKING THEN MemoryStats
    ELSE [ current_usage |-> T.current_usage_,
           peak_usage |-> T.peak_usage_,
           allocation_count |-> T.allocation_count_,
           deallocation_count |-> T.deallocation_count_,
           reallocation_count |-> T.reallocation_count_,
           total_allocated |-> T.allocation_count_,
           total_freed |-> T.deallocation_count_ ]

\* get_stats of the three strategies
get_stats(c, T) ==
    IF c.TRACKING_LEVEL = "NONE" \/ ~c.ENABLE_TRACKING
    THEN MemoryStats
    ELSE [ current_usage |-> T.current_usage_,
           peak_usage |-> T.peak_usage_,
           allocation_count |-> T.allocation_count_,
           deallocation_count |-> T.deallocation_count_,
           reallocation_count |-> T.reallocation_count_,
           total_allocated |-> T.allocation_count_,
           total_freed |-> T.deallocation_count_ ]

(***************************************************************************)
(* error_handling.h: a report handed to _memory_report_error.  A null      *)
(* const char* is NullText; text built with operator+ and std::to_string   *)
(* is the tuple of its pieces.                                             *)
(***************************************************************************)
NullText == "(null)"

Report(type, function, file, line, message) ==
    [ type |-> type, function |-> function, file |-> file, line |-> line,
      message |-> message ]

\* the report dump_allocations builds from one registry record
LeakReport(info) ==
    LET file == IF info.file # NullText THEN info.file ELSE "unknown"
        function == IF info.function # NullText THEN info.function ELSE "unknown"
    IN  Report("WARNING", function, file, info.line,
               << "Leak: ", info.size, " bytes at ", file, ":", info.line >>)

RECURSIVE LeakReports(_, _)
\* the loop of DetailedMemoryTracker::dump_allocations over the records of
\* the pointers in S (the iteration order of the map is unspecified, the
\* reports are collected as a bag)
LeakReports(allocations, S) ==
    IF S = {} THEN EmptyBag
    ELSE LET ptr == CHOOSE x \in S : TRUE
         IN  SetToBag({ LeakReport(allocations[ptr]) })
             (+) LeakReports(allocations, S \ {ptr})

\* dump_allocations of the three strategies: the reports it emits
dump_allocations(c, T) ==
    IF c.TRACKING_LEVEL = "NONE" THEN EmptyBag
    ELSE IF c.TRACKING_LEVEL = "BASIC"
    THEN IF c.ENABLE_TRACKING
         THEN LET stats == get_stats(c, T)
              IN  SetToBag({ Report("MEM_WARNING", "dump_allocations",
                                    "memory_tracker.h", 203,
                                    << "Memory Stats - Current: ", stats.current_usage,
                                       " Peak: ", stats.peak_usage,
                                       " Allocs: ", stats.allocation_count >>) })
         ELSE EmptyBag
    ELSE IF c.ENABLE_TRACKING /\ c.TRACKING_LEVEL = "DETAILED"
         THEN LeakReports(T.allocations_, DOMAIN T.allocations_)
         ELSE EmptyBag

(***************************************************************************)
(* memory_manager.h: MemoryManager<Config>.  A block of the system         *)
(* allocator is known by the pointer the engine returned for it; prepad    *)
(* tells whether DATA_OFFSET bytes of header precede that pointer,         *)
(* size_hdr is the memory_uint64_t at SIZE_OFFSET of a padded block, bytes *)
(* the size asked of the system allocator.  Zero filling (p_ensure_zero)   *)
(* changes the content of the user bytes only and is not modelled.         *)
(***************************************************************************)
should_use_padding(c, p_pad_align) ==
    IF c.PADDING_POLICY = "NONE" THEN FALSE
    ELSE IF c.PADDING_POLICY = "ALWAYS" THEN TRUE
    ELSE IF c.PADDING_POLICY = "DEBUG_ONLY" THEN c.MEMORY_DEBUG_ENABLED
    ELSE p_pad_align

\* mutant: the header holds the padded total instead of the requested size
PaddedBlock_total(p_bytes) ==
    [ prepad |-> TRUE, size_hdr |-> p_bytes + DATA_OFFSET,
      bytes |-> p_bytes + DATA_OFFSET ]

\* the block alloc_static sets up in its prepad branch: *s = p_bytes
PaddedBlock(p_bytes) ==
    [ prepad |-> TRUE, size_hdr |-> p_bytes, bytes |-> p_bytes + DATA_OFFSET ]

\* the block alloc_static hands out without padding
PlainBlock(p_bytes) ==
    [ prepad |-> FALSE, bytes |-> p_bytes ]

\* mutant: free_static reports size 0 although the block has a header
FreedSize_zero(block, prepad) == 0

\* the size free_static reports to track_deallocation
FreedSize(block, prepad) == IF prepad THEN block.size_hdr ELSE 0

\* the record of a completed call: its name, its result, the tracker call it
\* made, whether padding was in effect, and (history) the size last requested
\* for the block passed in
Call(op, ret, track, was, prepad) ==
    [ op |-> op, ret |-> ret, track |-> track, was |-> was, prepad |-> prepad,
      null |-> FALSE ]

\* the record of a completed call that was passed nullptr as its pointer
NullCall(op, ret, track, prepad) ==
    [ Call(op, ret, track, 0, prepad) EXCEPT !.null = TRUE ]

Tracked(fn, old_size, size) == << [ fn |-> fn, old_size |-> old_size, size |-> size ] >>

\* MEMORY_ERR_FAIL_NULL / MEMORY_ERR_FAIL_NULL_V / MEMORY_ERR_FAIL_COND_V
ErrFail(function, line, message) ==
    SetToBag({ Report("MEM_ERROR", function, "memory_manager.h", line, message) })

\* allocs, reallocs: the successful allocations and the reallocations so far;
\* plain: some block was allocated without padding; copied: the byte count
\* the last realloc_aligned_static passed to std::memcpy
HistInit ==
    [ allocs |-> 0, reallocs |-> 0, plain |-> FALSE, registered |-> 0, copied |-> 0 ]

\* the values of p_pad_align that make a difference: should_use_padding
\* reads the argument under the CONFIGURABLE policy only
PadArgs(c) == IF c.PADDING_POLICY = "CONFIGURABLE" THEN BOOLEAN ELSE { FALSE }

\* the record of a completed alloc_static call; as op = "realloc_static" it
\* is the call realloc_static(nullptr, ...) forwards
AllocCall(op, ret, track, prepad) ==
    [ Call(op, ret, track, 0, prepad) EXCEPT !.null = (op = "realloc_static") ]

\* MemoryManager::alloc_static past a successful std::malloc / std::calloc
alloc_static_block(op, p_bytes, prepad) ==
    \E mem \in Ptrs \ DOMAIN heap :
       /\ heap' = Put(heap, mem, IF prepad THEN PaddedBlock(p_bytes)
                                           ELSE PlainBlock(p_bytes))
       /\ tracker' = TrackerType_track_allocation(Config, tracker, p_bytes)
       /\ requested' = Put(requested, mem, p_bytes)
       /\ call' = AllocCall(op, mem, Tracked("track_allocation", 0, p_bytes), prepad)
       /\ reports' = EmptyBag
       /\ hist' = [ hist EXCEPT !.allocs = @ + 1, !.plain = @ \/ ~prepad ]

\* mutant: alloc_static calls track_allocation before MEMORY_ERR_FAIL_NULL_V
alloc_static_track_first(op, p_bytes, p_pad_align) ==
    LET prepad == should_use_padding(Config, p_pad_align)
    IN  \/ /\ call' = AllocCall(op, nullptr, Tracked("track_allocation", 0, p_bytes),
                                 prepad)
           /\ tracker' = TrackerType_track_allocation(Config, tracker, p_bytes)
           /\ reports' = ErrFail("alloc_static", 544, << "Null pointer: ", "mem" >>)
           /\ UNCHANGED << heap, requested, hist >>
        \/ alloc_static_block(op, p_bytes, prepad)

\* MemoryManager::alloc_static, called as op (realloc_static forwards to it)
alloc_static(op, p_bytes, p_pad_align) ==
    LET prepad == should_use_padding(Config, p_pad_align)
    IN  \/ \* std::malloc / std::calloc returns nullptr
           /\ call' = AllocCall(op, nullptr, << >>, prepad)
           /\ reports' = ErrFail("alloc_static", 544, << "Null pointer: ", "mem" >>)
           /\ UNCHANGED << tracker, heap, requested, hist >>
        \/ alloc_static_block(op, p_bytes, prepad)

AllocStatic ==
    /\ hist.allocs < MaxCount
    /\ \E p_bytes \in Sizes, p_pad_align \in PadArgs(Config) :
          alloc_static("alloc_static", p_bytes, p_pad_align)
    /\ UNCHANGED << Config, thist, outstanding, sinceReset, threads, others >>

\* MemoryManager::free_static past MEMORY_ERR_FAIL_NULL: on a live block,
\* with the padding flag the block was allocated with
free_static_block(p_ptr, p_pad_align) ==
    LET prepad == should_use_padding(Config, p_pad_align)
        size == FreedSize(heap[p_ptr], prepad)
    IN  /\ tracker' = TrackerType_track_deallocation(Config, tracker, size)
        /\ heap' = Drop(heap, p_ptr)
        /\ requested' = Drop(requested, p_ptr)
        /\ call' = Call("free_static", nullptr,
                        Tracked("track_deallocation", 0, size), requested[p_ptr],
                        prepad)
        /\ reports' = EmptyBag
        /\ UNCHANGED hist

\* mutant: free_static without MEMORY_ERR_FAIL_NULL(p_ptr); a null pointer
\* goes on to track_deallocation(0) and std::free(nullptr)
free_static_unguarded(p_ptr, p_pad_align) ==
    IF p_ptr = nullptr
    THEN /\ tracker' = TrackerType_track_deallocation(Config, tracker, 0)
         /\ call' = NullCall("free_static", nullptr,
                              Tracked("track_deallocation", 0, 0),
                              should_use_padding(Config, p_pad_align))
         /\ reports' = EmptyBag
         /\ UNCHANGED << heap, requested, hist >>
    ELSE free_static_block(p_ptr, p_pad_align)

\* MemoryManager::free_static
free_static(p_ptr, p_pad_align) ==
    IF p_ptr = nullptr
    THEN \* MEMORY_ERR_FAIL_NULL(p_ptr): report and return
         /\ call' = NullCall("free_static", nullptr, << >>,
                              should_use_padding(Config, p_pad_align))
         /\ reports' = ErrFail("free_static", 616, << "Null pointer: ", "p_ptr" >>)
         /\ UNCHANGED << tracker, heap, requested, hist >>
    ELSE free_static_block(p_ptr, p_pad_align)

FreeStatic ==
    /\ \E p_ptr \in DOMAIN heap, p_pad_align \in PadArgs(Config) :
          /\ should_use_padding(Config, p_pad_align) = heap[p_ptr].prepad
          /\ free_static(p_ptr, p_pad_align)
    /\ UNCHANGED << Config, thist, outstanding, sinceReset, threads, others >>

\* free_static(nullptr)
FreeStaticNull ==
    /\ \E p_pad_align \in PadArgs(Config) : free_static(nullptr, p_pad_align)
    /\ UNCHANGED << Config, thist, outstanding, sinceReset, threads, others >>

\* MemoryManager::realloc_static on a live block (p_memory # nullptr)
\* mutant: a padded block is resized to no bytes instead of being freed
FreesBlock_never(p_bytes) == FALSE

\* realloc_static with padding: if (p_bytes == 0) std::free(mem)
FreesBlock(p_bytes) == p_bytes = 0

\* mutant: the old size is never read from the header
OldSize_zero(prepad, block) == 0

\* mutant: without padding the old size is taken from the block itself
OldSize_of_block(prepad, block) == IF prepad THEN block.size_hdr ELSE block.bytes

\* the old size realloc_static reports: *s with padding, 0 without
OldSize(prepad, block) == IF prepad THEN block.size_hdr ELSE 0

\* MemoryManager::realloc_static on a non-null pointer
realloc_static(p_memory, p_bytes, p_pad_align) ==
    LET prepad == should_use_padding(Config, p_pad_align)
        old_size == OldSize(prepad, heap[p_memory])
        track == Tracked("track_reallocation", old_size, p_bytes)
        rest == Drop(heap, p_memory)
        done(ret) == Call("realloc_static", ret, track, requested[p_memory], prepad)
    IN  /\ tracker' = TrackerType_track_reallocation(Config, tracker, old_size, p_bytes)
        /\ hist' = [ hist EXCEPT !.reallocs = @ + 1 ]
        /\ IF prepad
           THEN IF FreesBlock(p_bytes)
                THEN \* std::free(mem); return nullptr
                     /\ heap' = rest
                     /\ requested' = Drop(requested, p_memory)
                     /\ call' = done(nullptr)
                     /\ reports' = EmptyBag
                ELSE \* *s = p_bytes, then std::realloc(mem, p_bytes + DATA_OFFSET)
                     \/ \* nullptr: the old block stays, its header rewritten
                        /\ heap' = [ heap EXCEPT ![p_memory].size_hdr = p_bytes ]
                        /\ requested' = [ requested EXCEPT ![p_memory] = p_bytes ]
                        /\ call' = done(nullptr)
                        /\ reports' = ErrFail("realloc_static", 594,
                                              << "Null pointer: ", "mem" >>)
                     \/ \* resized in place or moved; *s = p_bytes again
                        \E mem \in (Ptrs \ DOMAIN heap) \cup {p_memory} :
                           /\ heap' = Put(rest, mem, PaddedBlock(p_bytes))
                           /\ requested' = Put(Drop(requested, p_memory), mem, p_bytes)
                           /\ call' = done(mem)
                           /\ reports' = EmptyBag
           ELSE \* std::realloc(mem, p_bytes)
                \/ \* nullptr, the old block stays (for p_bytes = 0 one of
                   \* the outcomes the C library may choose)
                   /\ heap' = heap
                   /\ requested' = [ requested EXCEPT ![p_memory] = p_bytes ]
                   /\ call' = done(nullptr)
                   /\ reports' = IF p_bytes > 0
                                 THEN ErrFail("realloc_static", 608,
                                              << "Condition failed: ",
                                                 "mem == nullptr && p_bytes > 0" >>)
                                 ELSE EmptyBag
                \/ \* p_bytes = 0: the block is freed and nullptr returned
                   /\ p_bytes = 0
                   /\ heap' = rest
                   /\ requested' = Drop(requested, p_memory)
                   /\ call' = done(nullptr)
                   /\ reports' = EmptyBag
                \/ \* resized in place or moved
                   \E mem \in (Ptrs \ DOMAIN heap) \cup {p_memory} :
                      /\ heap' = Put(rest, mem, PlainBlock(p_bytes))
                      /\ requested' = Put(Drop(requested, p_memory), mem, p_bytes)
                      /\ call' = done(mem)
                      /\ reports' = EmptyBag

ReallocStatic ==
    /\ hist.reallocs < MaxReallocs
    /\ \E p_memory \in DOMAIN heap, p_bytes \in 0 .. MaxSize,
          p_pad_align \in PadArgs(Config) :
          /\ should_use_padding(Config, p_pad_align) = heap[p_memory].prepad
          /\ realloc_static(p_memory, p_bytes, p_pad_align)
    /\ UNCHANGED << Config, thist, outstanding, sinceReset, threads, others >>

\* mutant: realloc_static without its null check, the null pointer taking
\* the unpadded path (std::realloc(nullptr, p_bytes) allocates)
ReallocStaticNull_unchecked ==
    /\ hist.allocs < MaxCount
    /\ \E p_bytes \in Sizes, mem \in Ptrs \ DOMAIN heap :
          /\ heap' = Put(heap, mem, PlainBlock(p_bytes))
          /\ tracker' = TrackerType_track_reallocation(Config, tracker, 0, p_bytes)
          /\ requested' = Put(requested, mem, p_bytes)
          /\ call' = AllocCall("realloc_static", mem,
                               Tracked("track_reallocation", 0, p_bytes), FALSE)
          /\ reports' = EmptyBag
          /\ hist' = [ hist EXCEPT !.allocs = @ + 1, !.plain = TRUE ]
    /\ UNCHANGED << Config, thist, outstanding, sinceReset, threads, others >>

\* MemoryManager::realloc_static(nullptr, ...): return alloc_static(...)
ReallocStaticNull ==
    /\ hist.allocs < MaxCount
    /\ \E p_bytes \in Sizes, p_pad_align \in PadArgs(Config) :
          alloc_static("realloc_static", p_bytes, p_pad_align)
    /\ UNCHANGED << Config, thist, outstanding, sinceReset, threads, others >>

\* MemoryManager::dump_memory_allocations
DumpMemoryAllocations ==
    /\ reports' = dump_allocations(Config, tracker)
    /\ call' = Call("dump_memory_allocations", nullptr, << >>, 0, FALSE)
    /\ UNCHANGED << Config, tracker, heap, requested, hist, thist, outstanding,
                    sinceReset, threads, others >>

(***************************************************************************)
(* Specifications of the engine.                                           *)
(***************************************************************************)
ThreadIdle == [ pc |-> "idle", size |-> 0, new_usage |-> 0, current |-> 0,
                cycles |-> 0 ]

\* maxEver: the largest current usage held so far; maxUsage: the largest
\* held since the last reset_stats; underflow: a subtraction since then
\* exceeded the current usage; reset: reset_stats has been called;
\* allocs: allocations tracked so far
THistInit == [ maxEver |-> 0, maxUsage |-> 0, underflow |-> FALSE, reset |-> FALSE,
               allocs |-> 0 ]

\* no aligned block has been obtained
AlignedInit ==
    [ live |-> FALSE, p1 |-> nullptr, bytes |-> 0, p2 |-> nullptr, slot |-> 0,
      size |-> 0, alignment |-> 1, freed |-> nullptr ]

\* a SafeNumeric as constructed: value_(0)
NumericInit == [ value_ |-> 0 ]

\* g_memory_error_handler = default_memory_error_handler; no report yet
ErrorHandlingInit ==
    [ g_memory_error_handler |-> "default_memory_error_handler",
      handled_by |-> "none", cerr |-> "", aborted |-> FALSE,
      installed |-> "none", delivered |-> {}, made |-> 0 ]

\* the engine and its tracker before any call
\* no array has been allocated and memarr_len has not been asked
ArraysInit == [ count |-> EmptyMap, of |-> nullptr, len |-> 0 ]

InitIdle ==
    /\ tracker = TrackerInit
    /\ heap = EmptyMap
    /\ requested = EmptyMap
    /\ call = Call("none", nullptr, << >>, 0, FALSE)
    /\ reports = EmptyBag
    /\ hist = HistInit
    /\ thist = THistInit
    /\ outstanding = EmptyMap
    /\ sinceReset = {}
    /\ aligned = AlignedInit
    /\ allocations_mutex_ = FALSE
    /\ error_handling = ErrorHandlingInit
    /\ arrays = ArraysInit

InitCommon ==
    /\ InitIdle
    /\ threads = [ th \in { ThreadIdle } |-> MaxThreads ]
    /\ numeric = NumericInit

Init ==
    /\ Config \in Configs
    /\ InitCommon

NextAllocFree ==
    \/ AllocStatic
    \/ FreeStatic

SpecAllocFree == Init /\ [][NextAllocFree]_vars

Next ==
    \/ AllocStatic
    \/ FreeStatic
    \/ FreeStaticNull
    \/ ReallocStatic
    \/ ReallocStaticNull
    \/ DumpMemoryAllocations

Spec == Init /\ [][Next]_vars

(***************************************************************************)
(* The tracking strategy called directly (SpecTracker: the calls every     *)
(* strategy has; SpecDetailed: the pointer-carrying calls of               *)
(* DetailedMemoryTracker).                                                 *)
(***************************************************************************)
TrackerCall(op) == Call(op, nullptr, << >>, 0, FALSE)

\* the history after a call that took the tracker from T to U; under tells
\* that the call subtracted more than the current usage
THistAfter(h, U, under) ==
    [ h EXCEPT !.maxEver = IF U.current_usage_ > @ THEN U.current_usage_ ELSE @,
               !.maxUsage = IF U.current_usage_ > @ THEN U.current_usage_ ELSE @,
               !.underflow = @ \/ under ]

\* track_allocation(size)
TrackAllocation ==
    /\ thist.allocs < MaxTracked
    /\ \E size \in Sizes :
          LET U == TrackerType_track_allocation(Config, tracker, size)
          IN  /\ tracker' = U
              /\ thist' = [ THistAfter(thist, U, FALSE) EXCEPT !.allocs = @ + 1 ]
    /\ call' = TrackerCall("track_allocation")
    /\ reports' = EmptyBag
    /\ UNCHANGED << Config, heap, requested, hist, outstanding, sinceReset, threads, others >>

\* track_deallocation(size)
TrackDeallocation ==
    /\ tracker.deallocation_count_ < MaxEvents
    /\ \E size \in Sizes :
          LET U == TrackerType_track_deallocation(Config, tracker, size)
          IN  /\ tracker' = U
              /\ thist' = THistAfter(thist, U, size > tracker.current_usage_)
    /\ call' = TrackerCall("track_deallocation")
    /\ reports' = EmptyBag
    /\ UNCHANGED << Config, heap, requested, hist, outstanding, sinceReset, threads, others >>

\* track_reallocation(old_size, new_size); kept tells whether the record of
\* the call keeps its arguments
TrackReallocationAs(kept) ==
    /\ tracker.reallocation_count_ < MaxEvents
    /\ \E old_size \in 0 .. MaxSize, new_size \in 0 .. MaxSize :
          LET U == TrackerType_track_reallocation(Config, tracker, old_size, new_size)
          IN  /\ tracker' = U
              /\ thist' = THistAfter(thist, U,
                                     old_size - new_size > tracker.current_usage_)
              /\ call' = IF kept
                         THEN [ TrackerCall("track_reallocation") EXCEPT
                                  !.track = Tracked("track_reallocation", old_size,
                                                    new_size) ]
                         ELSE TrackerCall("track_reallocation")
    /\ reports' = EmptyBag
    /\ UNCHANGED << Config, heap, requested, hist, outstanding, sinceReset, threads, others >>

TrackReallocation == TrackReallocationAs(FALSE)

\* the same call with its arguments kept in the record
TrackReallocationOf == TrackReallocationAs(TRUE)

\* reset_stats()
ResetStats ==
    /\ tracker' = TrackerType_reset_stats(Config, tracker)
    /\ thist' = [ thist EXCEPT !.maxUsage = 0, !.underflow = FALSE, !.reset = TRUE ]
    /\ sinceReset' = {}
    /\ call' = TrackerCall("reset_stats")
    /\ reports' = EmptyBag
    /\ UNCHANGED << Config, heap, requested, hist, outstanding, threads, others >>

\* dump_allocations()
DumpAllocations ==
    /\ reports' = dump_allocations(Config, tracker)
    /\ call' = TrackerCall("dump_allocations")
    /\ UNCHANGED << Config, tracker, heap, requested, hist, thist, outstanding,
                    sinceReset, threads, others >>

TrackedPtrs == 1 .. MaxPtrs

\* the source locations a caller passes: a located call and the defaulted
\* arguments (file = nullptr, line = 0, function = nullptr)
Sites ==
    { [ file |-> "main.cpp", line |-> 42, function |-> "main" ],
      [ file |-> NullText, line |-> 0, function |-> NullText ] }

\* the defaulted arguments file = nullptr, line = 0, function = nullptr
NoSite == [ file |-> NullText, line |-> 0, function |-> NullText ]

\* track_allocation_with_ptr(ptr, size, file, line, function) for a pointer
\* the system allocator has just returned, hence not an outstanding one
TrackAllocationWithPtr ==
    /\ thist.allocs < MaxTracked
    /\ \E ptr \in TrackedPtrs \ DOMAIN outstanding, size \in Sizes, site \in Sites :
          LET U == track_allocation_with_ptr(Config, tracker, ptr, size, site)
          IN  /\ tracker' = U
              /\ thist' = [ THistAfter(thist, U, FALSE) EXCEPT !.allocs = @ + 1 ]
              /\ outstanding' = Put(outstanding, ptr, [ size |-> size, site |-> site ])
              /\ sinceReset' = sinceReset \cup {ptr}
    /\ call' = TrackerCall("track_allocation_with_ptr")
    /\ reports' = EmptyBag
    /\ UNCHANGED << Config, heap, requested, hist, threads, others >>

\* track_deallocation_with_ptr(ptr) for an outstanding pointer
TrackDeallocationWithPtr ==
    /\ \E ptr \in DOMAIN outstanding :
          LET U == track_deallocation_with_ptr(Config, tracker, ptr)
          IN  /\ tracker' = U
              /\ thist' = THistAfter(thist, U,
                                     /\ ptr \in DOMAIN tracker.allocations_
                                     /\ tracker.allocations_[ptr].size
                                          > tracker.current_usage_)
              /\ outstanding' = Drop(outstanding, ptr)
              /\ sinceReset' = sinceReset \ {ptr}
    /\ call' = TrackerCall("track_deallocation_with_ptr")
    /\ reports' = EmptyBag
    /\ UNCHANGED << Config, heap, requested, hist, threads, others >>

InitTracker ==
    /\ Config \in { ThreadSafeConfig(TRUE), DebugConfig }
    /\ InitCommon

NextTracker ==
    \/ TrackAllocation
    \/ TrackDeallocation
    \/ TrackReallocation
    \/ ResetStats

SpecTracker == InitTracker /\ [][NextTracker]_vars

\* the calls that add to the usage, and track_reallocation
NextRealloc ==
    \/ TrackAllocation
    \/ TrackReallocationOf

SpecRealloc == InitTracker /\ [][NextRealloc]_vars

(***************************************************************************)
(* SpecPaired: the tracker is told of the life of blocks: outstanding      *)
(* holds, for every block allocated and not yet deallocated, the size it   *)
(* has now.  A deallocation passes the size of one of them, a reallocation *)
(* its size as old_size.                                                   *)
(***************************************************************************)
\* track_allocation(size) for a new block
PairedAllocation ==
    /\ thist.allocs < MaxTracked
    /\ \E ptr \in TrackedPtrs \ DOMAIN outstanding, size \in 0 .. MaxSize :
          LET U == TrackerType_track_allocation(Config, tracker, size)
          IN  /\ tracker' = U
              /\ thist' = [ THistAfter(thist, U, FALSE) EXCEPT !.allocs = @ + 1 ]
              /\ outstanding' = Put(outstanding, ptr, [ size |-> size, site |-> NoSite ])
    /\ call' = TrackerCall("track_allocation")
    /\ reports' = EmptyBag
    /\ UNCHANGED << Config, heap, requested, hist, sinceReset, threads, others >>

\* track_deallocation(size) for one of the blocks, with its size
PairedDeallocation ==
    /\ \E ptr \in DOMAIN outstanding :
          LET size == outstanding[ptr].size
              U == TrackerType_track_deallocation(Config, tracker, size)
          IN  /\ tracker' = U
              /\ thist' = THistAfter(thist, U, size > tracker.current_usage_)
              /\ outstanding' = Drop(outstanding, ptr)
    /\ call' = TrackerCall("track_deallocation")
    /\ reports' = EmptyBag
    /\ UNCHANGED << Config, heap, requested, hist, sinceReset, threads, others >>

\* track_reallocation(old_size, new_size) for one of the blocks, old_size
\* being its size
PairedReallocation ==
    /\ tracker.reallocation_count_ < MaxEvents
    /\ \E ptr \in DOMAIN outstanding, new_size \in 0 .. MaxSize :
          LET old_size == outstanding[ptr].size
              U == TrackerType_track_reallocation(Config, tracker, old_size, new_size)
          IN  /\ tracker' = U
              /\ thist' = THistAfter(thist, U,
                                     old_size - new_size > tracker.current_usage_)
              /\ outstanding' = [ outstanding EXCEPT ![ptr].size = new_size ]
    /\ call' = TrackerCall("track_reallocation")
    /\ reports' = EmptyBag
    /\ UNCHANGED << Config, heap, requested, hist, sinceReset, threads, others >>

NextPaired ==
    \/ PairedAllocation
    \/ PairedDeallocation
    \/ PairedReallocation

SpecPaired == InitTracker /\ [][NextPaired]_vars

\* the same paired calls with reset_stats called at any point between them
NextPairedReset ==
    \/ PairedAllocation
    \/ PairedDeallocation
    \/ PairedReallocation
    \/ ResetStats

SpecPairedReset == InitTracker /\ [][NextPairedReset]_vars

InitDetailed ==
    /\ Config = DebugConfig
    /\ InitCommon

NextDetailed ==
    \/ TrackAllocationWithPtr
    \/ TrackDeallocationWithPtr
    \/ TrackAllocation
    \/ ResetStats
    \/ DumpAllocations

SpecDetailed == InitDetailed /\ [][NextDetailed]_vars

\* the calls of each counting strategy: the size-only calls on the basic
\* tracker, the calls with a pointer on the detailed one, reset_stats on
\* both, and dump_allocations called right after reset_stats has returned
NextReset ==
    \/ Config.TRACKING_LEVEL = "BASIC" /\ TrackAllocation
    \/ Config.TRACKING_LEVEL = "BASIC" /\ TrackDeallocation
    \/ Config.TRACKING_LEVEL = "BASIC" /\ TrackReallocation
    \/ Config.TRACKING_LEVEL = "DETAILED" /\ TrackAllocationWithPtr
    \/ Config.TRACKING_LEVEL = "DETAILED" /\ TrackDeallocationWithPtr
    \/ ResetStats
    \/ call.op = "reset_stats" /\ DumpAllocations

SpecReset == InitTracker /\ [][NextReset]_vars

\* the calls that change the registry
NextRegistry ==
    \/ TrackAllocationWithPtr
    \/ TrackDeallocationWithPtr
    \/ ResetStats

SpecRegistry == InitDetailed /\ [][NextRegistry]_vars

\* the detailed tracker called without a pointer once up to MaxEvents
\* pointers have been registered
NextPointerless ==
    \/ /\ Cardinality(DOMAIN outstanding) < MaxEvents
       /\ call.op \in { "none", "track_allocation_with_ptr" }
       /\ TrackAllocationWithPtr
    \/ TrackAllocation
    \/ TrackDeallocation

SpecPointerless == InitDetailed /\ [][NextPointerless]_vars

\* track_deallocation_with_ptr(ptr) for a pointer that is not outstanding:
\* one never registered, or one deallocated before
TrackDeallocationUnregistered ==
    /\ tracker.deallocation_count_ < MaxEvents
    /\ \E ptr \in TrackedPtrs \ DOMAIN outstanding :
          LET U == track_deallocation_with_ptr(Config, tracker, ptr)
          IN  /\ tracker' = U
              /\ thist' = THistAfter(thist, U,
                                     /\ ptr \in DOMAIN tracker.allocations_
                                     /\ tracker.allocations_[ptr].size
                                          > tracker.current_usage_)
    /\ call' = TrackerCall("track_deallocation_with_ptr")
    /\ reports' = EmptyBag
    /\ UNCHANGED << Config, heap, requested, hist, outstanding, sinceReset, threads,
                    others >>

\* the calls with a pointer, deallocations of unregistered pointers among
\* them, and reset_stats, which takes the records of outstanding pointers;
\* up to MaxEvents pointers are outstanding at a time
NextUnregistered ==
    \/ Cardinality(DOMAIN outstanding) < MaxEvents /\ TrackAllocationWithPtr
    \/ TrackDeallocationWithPtr
    \/ TrackDeallocationUnregistered
    \/ ResetStats

SpecUnregistered == InitDetailed /\ [][NextUnregistered]_vars

\* track_allocation_with_ptr(ptr, ...) for a pointer that is outstanding:
\* the same pointer value registered again without a deallocation between
TrackAllocationAgain ==
    /\ thist.allocs < MaxTracked
    /\ \E ptr \in DOMAIN outstanding, size \in Sizes, site \in Sites :
          LET U == track_allocation_with_ptr(Config, tracker, ptr, size, site)
          IN  /\ tracker' = U
              /\ thist' = [ THistAfter(thist, U, FALSE) EXCEPT !.allocs = @ + 1 ]
              /\ outstanding' = Put(outstanding, ptr, [ size |-> size, site |-> site ])
              /\ sinceReset' = sinceReset \cup {ptr}
    /\ call' = TrackerCall("track_allocation_with_ptr")
    /\ reports' = EmptyBag
    /\ UNCHANGED << Config, heap, requested, hist, threads, others >>

\* only the calls with a pointer, registrations of an outstanding pointer
\* among them
NextReregister ==
    \/ TrackAllocationWithPtr
    \/ TrackAllocationAgain
    \/ TrackDeallocationWithPtr

SpecReregister == InitDetailed /\ [][NextReregister]_vars

(***************************************************************************)
(* SpecConc: Threads call BasicMemoryTracker<ThreadSafeConfig> concurrently *)
(* under ThreadSafetyPolicy::STD_ATOMIC.  Every step is one operation on a *)
(* std::atomic together with the thread-local computation that follows it. *)
(* Each thread runs MaxCycles cycles of track_allocation(size), any number *)
(* of track_reallocation(size, new_size), track_deallocation(size), with   *)
(* at most MaxReallocs reallocations in the run (hist.reallocs counts).    *)
(* The threads run the same code and have no identity the tracker sees, so *)
(* threads is the bag of their positions and locals.                       *)
(***************************************************************************)
\* the threads once thread th has moved on to the given position and locals
Thread(th, pc, size, new_usage, current, cycles) ==
    (threads (-) SetToBag({ th }))
    (+) SetToBag({ [ pc |-> pc, size |-> size, new_usage |-> new_usage,
                     current |-> current, cycles |-> cycles ] })

\* where exchange_if_greater returns to
AfterPeak(pc) ==
    IF pc \in { "alloc_peak_load", "alloc_peak_cas" } THEN "alloc_count"
    ELSE "realloc_count"

\* where the loop of exchange_if_greater goes on
PeakCas(pc) ==
    IF pc \in { "alloc_peak_load", "alloc_peak_cas" } THEN "alloc_peak_cas"
    ELSE "realloc_peak_cas"

\* the sizes the threads pass: the smallest and the largest
ConcSizes == { 1, MaxSize }

ConcUnchanged ==
    UNCHANGED << Config, heap, requested, call, reports, outstanding, sinceReset,
                 others >>

\* track_allocation: new_usage = current_usage_.add(size)
ConcAllocAdd(th) ==
    /\ th.pc = "idle"
    /\ th.cycles < MaxCycles
    /\ \E size \in ConcSizes :
          LET new_usage == add(tracker.current_usage_, size)
              U == [ tracker EXCEPT !.current_usage_ = new_usage ]
          IN  /\ tracker' = U
              /\ thist' = THistAfter(thist, U, FALSE)
              /\ threads' = Thread(th, "alloc_peak_load", size, new_usage, 0,
                                    th.cycles)
    /\ UNCHANGED hist
    /\ ConcUnchanged

\* exchange_if_greater: current = value.load(), then the loop condition
ConcPeakLoad(th) ==
    LET current == tracker.peak_usage_
    IN  /\ th.pc \in { "alloc_peak_load", "realloc_peak_load" }
        /\ threads' = IF th.new_usage > current
                       THEN Thread(th, PeakCas(th.pc), th.size, th.new_usage,
                                   current, th.cycles)
                       ELSE Thread(th, AfterPeak(th.pc), th.size, 0, 0, th.cycles)
        /\ UNCHANGED << tracker, thist >>
        /\ UNCHANGED hist
        /\ ConcUnchanged

\* exchange_if_greater: one compare_exchange_weak, then return or loop
ConcPeakCas(th) ==
    LET r == compare_exchange_weak(tracker.peak_usage_, th.current, th.new_usage)
    IN  /\ th.pc \in { "alloc_peak_cas", "realloc_peak_cas" }
        /\ tracker' = [ tracker EXCEPT !.peak_usage_ = r.value ]
        /\ threads' = IF r.ok \/ ~(th.new_usage > r.expected)
                       THEN Thread(th, AfterPeak(th.pc), th.size, 0, 0, th.cycles)
                       ELSE Thread(th, th.pc, th.size, th.new_usage, r.expected,
                                   th.cycles)
        /\ UNCHANGED thist
        /\ UNCHANGED hist
        /\ ConcUnchanged

\* track_allocation: allocation_count_.increment(), return
ConcAllocCount(th) ==
    /\ th.pc = "alloc_count"
    /\ tracker' = [ tracker EXCEPT !.allocation_count_ = increment(@) ]
    /\ threads' = Thread(th, "live", th.size, 0, 0, th.cycles)
    /\ UNCHANGED thist
    /\ UNCHANGED hist
    /\ ConcUnchanged

\* track_reallocation(size, new_size) with new_size > size:
\* new_usage = current_usage_.add(new_size - old_size)
ConcReallocAdd(th) ==
    /\ th.pc = "live"
    /\ hist.reallocs < MaxReallocs
    /\ hist' = [ hist EXCEPT !.reallocs = @ + 1 ]
    /\ \E new_size \in ConcSizes :
          LET new_usage == add(tracker.current_usage_, new_size - th.size)
              U == [ tracker EXCEPT !.current_usage_ = new_usage ]
          IN  /\ new_size > th.size
              /\ tracker' = U
              /\ thist' = THistAfter(thist, U, FALSE)
              /\ threads' = Thread(th, "realloc_peak_load", new_size,
                                    new_usage, 0, th.cycles)
    /\ ConcUnchanged

\* track_reallocation(size, new_size) with size > new_size:
\* current_usage_.sub(old_size - new_size)
ConcReallocSub(th) ==
    /\ th.pc = "live"
    /\ hist.reallocs < MaxReallocs
    /\ hist' = [ hist EXCEPT !.reallocs = @ + 1 ]
    /\ \E new_size \in ConcSizes :
          LET U == [ tracker EXCEPT !.current_usage_ = sub(@, th.size - new_size) ]
          IN  /\ th.size > new_size
              /\ tracker' = U
              /\ thist' = THistAfter(thist, U, FALSE)
              /\ threads' = Thread(th, "realloc_count", new_size, 0, 0,
                                    th.cycles)
    /\ ConcUnchanged

\* track_reallocation: reallocation_count_.increment(), return; from "live"
\* it is the whole of track_reallocation(size, size)
ConcReallocCount(th) ==
    /\ \/ th.pc = "realloc_count" /\ UNCHANGED hist
       \/ /\ th.pc = "live"
          /\ hist.reallocs < MaxReallocs
          /\ hist' = [ hist EXCEPT !.reallocs = @ + 1 ]
    /\ tracker' = [ tracker EXCEPT !.reallocation_count_ = increment(@) ]
    /\ threads' = Thread(th, "live", th.size, 0, 0, th.cycles)
    /\ UNCHANGED thist
    /\ ConcUnchanged

\* track_deallocation(size): current_usage_.sub(size)
ConcDeallocSub(th) ==
    LET U == [ tracker EXCEPT !.current_usage_ = sub(@, th.size) ]
    IN  /\ th.pc = "live"
        /\ tracker' = U
        /\ thist' = THistAfter(thist, U, FALSE)
        /\ threads' = Thread(th, "dealloc_count", 0, 0, 0, th.cycles)
        /\ UNCHANGED hist
        /\ ConcUnchanged

\* track_deallocation: deallocation_count_.increment(), return
ConcDeallocCount(th) ==
    /\ th.pc = "dealloc_count"
    /\ tracker' = [ tracker EXCEPT !.deallocation_count_ = increment(@) ]
    /\ threads' = Thread(th, "idle", 0, 0, 0, th.cycles + 1)
    /\ UNCHANGED thist
    /\ UNCHANGED hist
    /\ ConcUnchanged

InitConc ==
    /\ Config = ThreadSafeConfig(TRUE)
    /\ InitCommon

NextConc ==
    \/ \E th \in BagToSet(threads) : ConcAllocAdd(th)
    \/ \E th \in BagToSet(threads) : ConcPeakLoad(th)
    \/ \E th \in BagToSet(threads) : ConcPeakCas(th)
    \/ \E th \in BagToSet(threads) : ConcAllocCount(th)
    \/ \E th \in BagToSet(threads) : ConcReallocAdd(th)
    \/ \E th \in BagToSet(threads) : ConcReallocSub(th)
    \/ \E th \in BagToSet(threads) : ConcReallocCount(th)
    \/ \E th \in BagToSet(threads) : ConcDeallocSub(th)
    \/ \E th \in BagToSet(threads) : ConcDeallocCount(th)

SpecConc == InitConc /\ [][NextConc]_vars

(***************************************************************************)
(* SpecMutex: Threads call DetailedMemoryTracker<DebugConfig> concurrently. *)
(* Every step is one acquisition of allocations_mutex_, or the statements  *)
(* a thread executes while it holds the mutex (the std::lock_guard         *)
(* releases it at the end of the scope), or the operations on the atomic   *)
(* counters a call performs before it asks for the mutex.  The threads     *)
(* make MaxTracked calls between them.  hist.registered is the largest     *)
(* allocation identifier given to a record registered so far.              *)
(***************************************************************************)
RegistryIdle ==
    [ pc |-> "idle", ptr |-> nullptr, size |-> 0, alloc_id |-> 0, cycles |-> 0 ]

\* the threads once thread th has moved on to the given position and locals
Registrant(th, pc, ptr, size, alloc_id, cycles) ==
    (threads (-) SetToBag({ th }))
    (+) SetToBag({ [ pc |-> pc, ptr |-> ptr, size |-> size,
                     alloc_id |-> alloc_id, cycles |-> cycles ] })

\* the pointers the calls in progress were passed
InFlight == { th.ptr : th \in BagToSet(threads) } \ { nullptr }

RECURSIVE CallsOf(_)
\* the calls the threads of the bag B have begun: th.cycles counts those a
\* thread has returned from
CallsOf(B) ==
    IF B = EmptyBag THEN 0
    ELSE LET th == CHOOSE t \in BagToSet(B) : TRUE
         IN  th.cycles + (IF th.pc = "idle" THEN 0 ELSE 1)
             + CallsOf(B (-) SetToBag({ th }))

CallsBegun == CallsOf(threads)

\* mutant: a lock_guard that does not wait for the mutex
lock_guard_no_wait(th, pc, ptr) ==
    /\ allocations_mutex_' = TRUE
    /\ threads' = Registrant(th, pc, ptr, th.size, th.alloc_id, th.cycles)

\* std::lock_guard<std::mutex> lock(allocations_mutex_): the thread goes on
\* to pc, with ptr the pointer its call was passed, once it has the mutex
lock_guard(th, pc, ptr) ==
    /\ ~allocations_mutex_
    /\ allocations_mutex_' = TRUE
    /\ threads' = Registrant(th, pc, ptr, th.size, th.alloc_id, th.cycles)

MutexUnchanged ==
    UNCHANGED << Config, heap, requested, aligned, numeric, error_handling, arrays >>

\* track_allocation_with_ptr(ptr, size) up to the lock_guard: the counters
\* and alloc_id = next_allocation_id_.increment(); ptr is a pointer the
\* system allocator has just returned
AwpCounters(th) ==
    /\ th.pc = "idle"
    /\ CallsBegun < MaxTracked
    /\ \E ptr \in TrackedPtrs \ (DOMAIN outstanding \cup InFlight), size \in ConcSizes :
          LET new_usage == add(tracker.current_usage_, size)
              alloc_id == increment(tracker.next_allocation_id_)
          IN  /\ tracker' = [ tracker EXCEPT
                                !.current_usage_ = new_usage,
                                !.peak_usage_ = exchange_if_greater(@, new_usage),
                                !.allocation_count_ = increment(@),
                                !.next_allocation_id_ = alloc_id ]
              /\ threads' = Registrant(th, "awp_lock", ptr, size, alloc_id, th.cycles)
    /\ UNCHANGED << call, reports, hist, outstanding, sinceReset, allocations_mutex_ >>
    /\ UNCHANGED thist
    /\ MutexUnchanged

AwpLock(th) ==
    /\ th.pc = "awp_lock"
    /\ lock_guard(th, "awp_insert", th.ptr)
    /\ UNCHANGED << tracker, call, reports, hist, outstanding, sinceReset >>
    /\ UNCHANGED thist
    /\ MutexUnchanged

\* allocations_[ptr] = AllocationInfo(size, file, line, function, timestamp,
\* alloc_id); return
AwpInsert(th) ==
    /\ th.pc = "awp_insert"
    /\ tracker' = [ tracker EXCEPT
                      !.allocations_ =
                          Put(@, th.ptr,
                              AllocationInfo(th.size, NoSite.file, NoSite.line,
                                             NoSite.function, 0, th.alloc_id)) ]
    /\ allocations_mutex_' = FALSE
    /\ threads' = Registrant(th, "idle", nullptr, 0, 0, th.cycles + 1)
    /\ outstanding' = Put(outstanding, th.ptr, [ size |-> th.size, site |-> NoSite ])
    /\ sinceReset' = sinceReset \cup { th.ptr }
    /\ hist' = [ hist EXCEPT !.registered = IF th.alloc_id > @ THEN th.alloc_id ELSE @ ]
    /\ call' = TrackerCall("track_allocation_with_ptr")
    /\ reports' = EmptyBag
    /\ UNCHANGED thist
    /\ MutexUnchanged

\* track_deallocation_with_ptr(ptr) for an outstanding pointer: the lock_guard
DwpLock(th) ==
    /\ th.pc = "idle"
    /\ CallsBegun < MaxTracked
    /\ \E ptr \in DOMAIN outstanding \ InFlight :
          lock_guard(th, "dwp_find", ptr)
    /\ UNCHANGED << tracker, call, reports, hist, outstanding, sinceReset >>
    /\ UNCHANGED thist
    /\ MutexUnchanged

\* find, current_usage_.sub, erase, deallocation_count_.increment(); return
DwpFind(th) ==
    /\ th.pc = "dwp_find"
    /\ tracker' = track_deallocation_with_ptr(Config, tracker, th.ptr)
    /\ allocations_mutex_' = FALSE
    /\ threads' = Registrant(th, "idle", nullptr, 0, 0, th.cycles + 1)
    /\ outstanding' = Drop(outstanding, th.ptr)
    /\ sinceReset' = sinceReset \ { th.ptr }
    /\ call' = TrackerCall("track_deallocation_with_ptr")
    /\ reports' = EmptyBag
    /\ UNCHANGED hist
    /\ UNCHANGED thist
    /\ MutexUnchanged

\* reset_stats() up to the lock_guard: the six set(0)
ResetCounters(th) ==
    /\ th.pc = "idle"
    /\ CallsBegun < MaxTracked
    /\ tracker' = [ tracker EXCEPT !.current_usage_ = 0,
                                   !.peak_usage_ = 0,
                                   !.allocation_count_ = 0,
                                   !.deallocation_count_ = 0,
                                   !.reallocation_count_ = 0,
                                   !.next_allocation_id_ = 0 ]
    /\ threads' = Registrant(th, "reset_lock", nullptr, 0, 0, th.cycles)
    /\ thist' = [ thist EXCEPT !.reset = TRUE ]
    /\ UNCHANGED << call, reports, hist, outstanding, sinceReset, allocations_mutex_ >>
    /\ MutexUnchanged

ResetLock(th) ==
    /\ th.pc = "reset_lock"
    /\ lock_guard(th, "reset_clear", nullptr)
    /\ UNCHANGED << tracker, call, reports, hist, outstanding, sinceReset >>
    /\ UNCHANGED thist
    /\ MutexUnchanged

\* allocations_.clear(); return
ResetClear(th) ==
    /\ th.pc = "reset_clear"
    /\ tracker' = [ tracker EXCEPT !.allocations_ = EmptyMap ]
    /\ allocations_mutex_' = FALSE
    /\ threads' = Registrant(th, "idle", nullptr, 0, 0, th.cycles + 1)
    /\ sinceReset' = {}
    /\ call' = TrackerCall("reset_stats")
    /\ reports' = EmptyBag
    /\ UNCHANGED << hist, outstanding >>
    /\ UNCHANGED thist
    /\ MutexUnchanged

\* dump_allocations(): the lock_guard
DumpLock(th) ==
    /\ th.pc = "idle"
    /\ CallsBegun < MaxTracked
    /\ lock_guard(th, "dump_enum", nullptr)
    /\ UNCHANGED << tracker, call, reports, hist, outstanding, sinceReset >>
    /\ UNCHANGED thist
    /\ MutexUnchanged

\* the loop over allocations_; return
DumpEnum(th) ==
    /\ th.pc = "dump_enum"
    /\ reports' = dump_allocations(Config, tracker)
    /\ allocations_mutex_' = FALSE
    /\ threads' = Registrant(th, "idle", nullptr, 0, 0, th.cycles + 1)
    /\ call' = TrackerCall("dump_allocations")
    /\ UNCHANGED << tracker, hist, outstanding, sinceReset >>
    /\ UNCHANGED thist
    /\ MutexUnchanged

InitMutex ==
    /\ Config = DebugConfig
    /\ InitIdle
    /\ threads = [ th \in { RegistryIdle } |-> MaxThreads ]
    /\ numeric = NumericInit

NextMutex ==
    \/ \E th \in BagToSet(threads) : AwpCounters(th)
    \/ \E th \in BagToSet(threads) : AwpLock(th)
    \/ \E th \in BagToSet(threads) : AwpInsert(th)
    \/ \E th \in BagToSet(threads) : DwpLock(th)
    \/ \E th \in BagToSet(threads) : DwpFind(th)
    \/ \E th \in BagToSet(threads) : ResetCounters(th)
    \/ \E th \in BagToSet(threads) : ResetLock(th)
    \/ \E th \in BagToSet(threads) : ResetClear(th)
    \/ \E th \in BagToSet(threads) : DumpLock(th)
    \/ \E th \in BagToSet(threads) : DumpEnum(th)

SpecMutex == InitMutex /\ [][NextMutex]_vars

(***************************************************************************)
(* SpecAligned: alloc_aligned_static and free_aligned_static.  Addresses   *)
(* and memory_size_t values are Mod wide; memory_uint32_t, the type of the *)
(* stored offset, is narrower.  One aligned block is outstanding at a      *)
(* time.                                                                   *)
(***************************************************************************)
SizeofUint32 == 4

\* the width of memory_uint32_t, kept one bit below that of memory_size_t
Uint32Bits == WordBits - 1

Uint32Mod == 2 ^ Uint32Bits

\* the powers of two an address can be a multiple of
Alignments == { 2 ^ k : k \in 0 .. WordBits - 1 }

\* x & ~(a - 1) for a power of two a
AlignDown(x, a) == x - (x % a)

\* the addresses std::malloc(n) may return: aligned for any object, the
\* n bytes inside the address space
MallocAddrs(n) ==
    { p \in 1 .. Mod - 1 : p % AlignofMaxAlign = 0 /\ p + n <= Mod }

\* the bytes [lo, hi) lie inside the block std::malloc returned
InsideRaw(a, lo, hi) == a.p1 <= lo /\ lo <= hi /\ hi <= a.p1 + a.bytes

\* MemoryManager::alloc_aligned_static
alloc_aligned_static(p_bytes, p_alignment) ==
    LET n == (p_bytes + p_alignment - 1 + SizeofUint32) % Mod
    IN  \/ \* std::malloc returns nullptr: return nullptr
           /\ call' = Call("alloc_aligned_static", nullptr, << >>, 0, FALSE)
           /\ reports' = EmptyBag
           /\ UNCHANGED << tracker, aligned, hist >>
        \/ \E p1 \in MallocAddrs(n) :
              LET p2 == AlignDown((p1 + SizeofUint32 + p_alignment - 1) % Mod,
                                  p_alignment)
                  offset == ((p2 + Mod - p1) % Mod) % Uint32Mod
                  a == [ live |-> TRUE, p1 |-> p1, bytes |-> n, p2 |-> p2,
                         slot |-> offset, size |-> p_bytes,
                         alignment |-> p_alignment, freed |-> nullptr ]
              IN  /\ aligned' = a
                  /\ tracker' = TrackerType_track_allocation(Config, tracker, p_bytes)
                  /\ call' = Call("alloc_aligned_static", p2,
                                  Tracked("track_allocation", 0, p_bytes), 0, FALSE)
                  /\ reports' = EmptyBag
                  /\ hist' = [ hist EXCEPT !.allocs = @ + 1 ]

\* the sizes passed: none, the small ones, and the largest of memory_size_t,
\* with which the raw size wraps
AlignedSizes == (0 .. MaxSize) \cup { Mod - k : k \in 1 .. SizeofUint32 }

\* a call of alloc_aligned_static with one of the given sizes and alignments
AllocAligned(sizes, alignments) ==
    /\ ~aligned.live
    /\ hist.allocs < MaxCount
    /\ \E p_bytes \in sizes, p_alignment \in alignments :
          alloc_aligned_static(p_bytes, p_alignment)
    /\ UNCHANGED << Config, heap, requested, thist, outstanding, sinceReset,
                    threads, numeric, statics >>

AllocAlignedStatic == AllocAligned(AlignedSizes, Alignments)

\* the values *(static_cast<memory_uint32_t*>(p_memory) - 1) may yield: the
\* offset stored there, or anything when the store was made outside the
\* block (undefined behaviour)
SlotValues(a) ==
    IF InsideRaw(a, a.p2 - SizeofUint32, a.p2) THEN { a.slot }
    ELSE 0 .. Uint32Mod - 1

\* MemoryManager::free_aligned_static on the outstanding block; what is kept
\* of it is the address std::malloc returned and the one std::free is given
free_aligned_static(p_memory) ==
    \E offset \in SlotValues(aligned) :
       LET p == (p_memory + Mod - offset) % Mod
       IN  /\ tracker' = TrackerType_track_deallocation(Config, tracker, 0)
           /\ aligned' = [ AlignedInit EXCEPT !.p1 = aligned.p1, !.freed = p ]
           /\ call' = Call("free_aligned_static", nullptr,
                           Tracked("track_deallocation", 0, 0), 0, FALSE)
           /\ reports' = EmptyBag

FreeAlignedStatic ==
    /\ aligned.live
    /\ free_aligned_static(aligned.p2)
    /\ UNCHANGED << Config, heap, requested, hist, thist, outstanding, sinceReset,
                    threads, numeric, statics >>

NextAligned ==
    \/ AllocAlignedStatic
    \/ FreeAlignedStatic

SpecAligned == Init /\ [][NextAligned]_vars

\* SpecSizes: the calls of the engine that report a size to the tracker for
\* a block they are handed; the aligned blocks have the sizes of the others
\* and the two smallest alignments
NextSizes ==
    \/ AllocStatic
    \/ FreeStatic
    \/ ReallocStatic
    \/ AllocAligned(Sizes, { 1, 2 })
    \/ FreeAlignedStatic

\* configurations with a tracker that counts: the aggregate one with
\* padding never in effect (release build), the detailed one with padding
\* always in effect
InitSizes ==
    /\ Config \in { ThreadSafeConfig(FALSE), DebugConfig }
    /\ InitCommon

SpecSizes == InitSizes /\ [][NextSizes]_vars

(***************************************************************************)
(* MemoryManager::realloc_aligned_static.  The old and the new block exist *)
(* together, so the aligned blocks are kept here as the blocks of          *)
(* alloc_static are: in heap, known by the pointer the engine returned     *)
(* (p2), with the size asked of std::malloc, and in requested the size the *)
(* caller asked for.  Where p2 and the offset slot lie inside the raw      *)
(* block is the matter of alloc_aligned_static above.  The bytes of the    *)
(* blocks are not modelled; of std::memcpy the byte count is kept.         *)
(***************************************************************************)
\* the raw block of alloc_aligned_static(p_bytes, p_alignment)
AlignedBlock(p_bytes, p_alignment) ==
    PlainBlock((p_bytes + p_alignment - 1 + SizeofUint32) % Mod)

\* alloc_aligned_static, called as op (realloc_aligned_static forwards a
\* null pointer to it)
alloc_aligned_block(op, p_bytes, p_alignment) ==
    \/ \* std::malloc returns nullptr: return nullptr
       /\ call' = [ Call(op, nullptr, << >>, 0, FALSE) EXCEPT
                      !.null = (op = "realloc_aligned_static") ]
       /\ reports' = EmptyBag
       /\ UNCHANGED << tracker, heap, requested, hist >>
    \/ \E p2 \in Ptrs \ DOMAIN heap :
          /\ heap' = Put(heap, p2, AlignedBlock(p_bytes, p_alignment))
          /\ requested' = Put(requested, p2, p_bytes)
          /\ tracker' = TrackerType_track_allocation(Config, tracker, p_bytes)
          /\ call' = [ Call(op, p2, Tracked("track_allocation", 0, p_bytes), 0, FALSE)
                         EXCEPT !.null = (op = "realloc_aligned_static") ]
          /\ reports' = EmptyBag
          /\ hist' = [ hist EXCEPT !.allocs = @ + 1 ]

\* free_aligned_static on a live aligned block
free_aligned_block(p_memory) ==
    /\ tracker' = TrackerType_track_deallocation(Config, tracker, 0)
    /\ heap' = Drop(heap, p_memory)
    /\ requested' = Drop(requested, p_memory)
    /\ call' = Call("free_aligned_static", nullptr,
                    Tracked("track_deallocation", 0, 0), requested[p_memory], FALSE)
    /\ reports' = EmptyBag
    /\ UNCHANGED hist

\* MemoryManager::realloc_aligned_static: alloc_aligned_static for the new
\* block, std::memcpy of p_prev_bytes bytes if that returned a block,
\* track_reallocation, free_aligned_static of the old block
realloc_aligned_static(p_memory, p_bytes, p_prev_bytes, p_alignment) ==
    IF p_memory = nullptr
    THEN alloc_aligned_block("realloc_aligned_static", p_bytes, p_alignment)
    ELSE LET allocated == TrackerType_track_allocation(Config, tracker, p_bytes)
             finish(T) ==
                 TrackerType_track_deallocation(Config,
                     TrackerType_track_reallocation(Config, T, p_prev_bytes, p_bytes),
                     0)
             told == Tracked("track_reallocation", p_prev_bytes, p_bytes)
                        \o Tracked("track_deallocation", 0, 0)
             rest == Drop(heap, p_memory)
             done(ret, track) ==
                 Call("realloc_aligned_static", ret, track, requested[p_memory], FALSE)
         IN  /\ reports' = EmptyBag
             /\ \/ \* ret == nullptr: no copy; the old block is freed all the same
                   /\ tracker' = finish(tracker)
                   /\ heap' = rest
                   /\ requested' = Drop(requested, p_memory)
                   /\ call' = done(nullptr, told)
                   /\ hist' = [ hist EXCEPT !.reallocs = @ + 1, !.copied = 0 ]
                \/ \E ret \in Ptrs \ DOMAIN heap :
                      /\ tracker' = finish(allocated)
                      /\ heap' = Put(rest, ret, AlignedBlock(p_bytes, p_alignment))
                      /\ requested' = Put(Drop(requested, p_memory), ret, p_bytes)
                      /\ call' = done(ret, Tracked("track_allocation", 0, p_bytes)
                                              \o told)
                      /\ hist' = [ hist EXCEPT !.reallocs = @ + 1,
                                               !.copied = p_prev_bytes ]

\* the frame of the calls on aligned blocks
RealignUnchanged ==
    UNCHANGED << Config, thist, outstanding, sinceReset, threads, others >>

AllocAlignedBlock ==
    /\ hist.allocs < MaxCount
    /\ \E p_bytes \in Sizes, p_alignment \in { 1, 2 } :
          alloc_aligned_block("alloc_aligned_static", p_bytes, p_alignment)
    /\ RealignUnchanged

FreeAlignedBlock ==
    /\ \E p_memory \in DOMAIN heap : free_aligned_block(p_memory)
    /\ RealignUnchanged

\* realloc_aligned_static on a live block, the caller passing the size it
\* asked for before as p_prev_bytes
ReallocAlignedStatic ==
    /\ hist.reallocs < MaxReallocs
    /\ \E p_memory \in DOMAIN heap, p_bytes \in 0 .. MaxSize, p_alignment \in { 1, 2 } :
          realloc_aligned_static(p_memory, p_bytes, requested[p_memory], p_alignment)
    /\ RealignUnchanged

\* realloc_aligned_static(nullptr, ...)
ReallocAlignedNull ==
    /\ hist.allocs < MaxCount
    /\ \E p_bytes \in Sizes, p_alignment \in { 1, 2 } :
          realloc_aligned_static(nullptr, p_bytes, 0, p_alignment)
    /\ RealignUnchanged

NextRealign ==
    \/ AllocAlignedBlock
    \/ FreeAlignedBlock
    \/ ReallocAlignedStatic
    \/ ReallocAlignedNull

\* the counting configurations and one whose tracker is the no-op one (as
\* HighPerformanceConfig, whose specialisation has the same body without
\* the tracker calls)
InitRealign ==
    /\ Config \in { ThreadSafeConfig(TRUE), DebugConfig, EmbeddedConfig }
    /\ InitCommon

SpecRealign == InitRealign /\ [][NextRealign]_vars

(***************************************************************************)
(* memory_interface.h: memnew_arr_template, memarr_len, memdelete_arr on   *)
(* Memory = MemoryManager<DefaultConfig>.  Places inside a block are       *)
(* offsets from the address the system allocator returned for it.          *)
(***************************************************************************)
\* where the pointer the engine returned lies in the block
UserOffset(block) == IF block.prepad THEN DATA_OFFSET ELSE 0

\* _get_element_count_ptr(p_ptr) = p_ptr - DATA_OFFSET + ELEMENT_OFFSET, for
\* the pointer the engine returned for the block
get_element_count_ptr(block) == UserOffset(block) - DATA_OFFSET + ELEMENT_OFFSET

\* the memory_uint64_t at _get_element_count_ptr lies inside the block
ElementSlotInside(block) ==
    /\ 0 <= get_element_count_ptr(block)
    /\ get_element_count_ptr(block) + SizeofUint64 <= block.bytes

\* what *elem_count_ptr yields: the count stored there, or anything when
\* the slot is outside the block (undefined behaviour)
ElementCounts(block, stored) ==
    IF ElementSlotInside(block) THEN { stored } ELSE 0 .. Mod - 1

ArraysUnchanged ==
    UNCHANGED << Config, thist, outstanding, sinceReset, threads, aligned, numeric,
                 allocations_mutex_, error_handling >>

\* memnew_arr_template<T>(p_elements), sizeof_T being sizeof(T)
memnew_arr_template(p_elements, sizeof_T) ==
    LET len == sizeof_T * p_elements
        prepad == should_use_padding(Config, TRUE)
    IN  IF p_elements = 0
        THEN /\ call' = Call("memnew_arr_template", nullptr, << >>, 0, prepad)
             /\ reports' = EmptyBag
             /\ UNCHANGED << tracker, heap, requested, hist, arrays >>
        ELSE \/ \* Memory::alloc_static(len, true) returns nullptr
                /\ call' = Call("memnew_arr_template", nullptr, << >>, 0, prepad)
                /\ reports' = ErrFail("alloc_static", 544, << "Null pointer: ", "mem" >>)
                                 (+) ErrFail("memnew_arr_template", 115,
                                             << "Null pointer: ", "mem" >>)
                /\ UNCHANGED << tracker, heap, requested, hist, arrays >>
             \/ \* *elem_count_ptr = p_elements
                /\ alloc_static_block("memnew_arr_template", len, prepad)
                /\ arrays' = [ arrays EXCEPT !.count = Put(@, call'.ret, p_elements) ]

\* memarr_len(p_class) for an array
memarr_len(p_class) ==
    /\ \E elem_count \in ElementCounts(heap[p_class], arrays.count[p_class]) :
          arrays' = [ arrays EXCEPT !.of = p_class, !.len = elem_count ]
    /\ call' = Call("memarr_len", nullptr, << >>, requested[p_class],
                    heap[p_class].prepad)
    /\ reports' = EmptyBag
    /\ UNCHANGED << tracker, heap, requested, hist >>

\* memdelete_arr(p_class) for an array of a trivially destructible T
memdelete_arr(p_class) ==
    /\ free_static(p_class, TRUE)
    /\ arrays' = [ arrays EXCEPT !.count = Drop(@, p_class),
                                 !.of = IF @ = p_class THEN nullptr ELSE @ ]

MemnewArr ==
    /\ hist.allocs < MaxCount
    /\ \E p_elements \in 0 .. MaxSize, sizeof_T \in { 1, 2 } :
          memnew_arr_template(p_elements, sizeof_T)
    /\ ArraysUnchanged

MemarrLen ==
    /\ \E p_class \in DOMAIN arrays.count : memarr_len(p_class)
    /\ ArraysUnchanged

MemdeleteArr ==
    /\ \E p_class \in DOMAIN arrays.count : memdelete_arr(p_class)
    /\ ArraysUnchanged

NextArrays ==
    \/ MemnewArr
    \/ MemarrLen
    \/ MemdeleteArr

\* DefaultConfig of a debug and of a release build
InitArrays ==
    /\ Config \in { DefaultConfig(TRUE), DefaultConfig(FALSE) }
    /\ InitCommon

SpecArrays == InitArrays /\ [][NextArrays]_vars

(***************************************************************************)
(* SpecExchange: exchange_if_greater.  MaxThreads threads each call it     *)
(* once on one SafeNumeric<T, STD_ATOMIC>, a step being one operation on   *)
(* the std::atomic with the thread-local computation that follows it; a    *)
(* sequential caller calls it on a SafeNumeric<T, NONE>.                   *)
(***************************************************************************)
\* the values stored and passed
Values == 0 .. MaxSize

Greater(a, b) == IF a > b THEN a ELSE b

\* the threads once thread th has moved on to the given position and locals
Caller(th, pc, p_value, current) ==
    (threads (-) SetToBag({ th }))
    (+) SetToBag({ [ pc |-> pc, p_value |-> p_value, current |-> current ] })

CallerIdle == [ pc |-> "idle", p_value |-> 0, current |-> 0 ]

CallerDone == [ pc |-> "done", p_value |-> 0, current |-> 0 ]

\* the last call that returned: its argument, its result and whether it
\* stored its argument
NumericCall(op, p_value, ret, stored) ==
    [ op |-> op, p_value |-> p_value, ret |-> ret, stored |-> stored ]

\* mutant: the loop of exchange_if_greater runs while the values differ
exchange_if_greater_differs(p_value, current) == p_value # current

\* SafeNumeric<T, STD_ATOMIC>::exchange_if_greater: while (p_value > current)
exchange_if_greater_loops(p_value, current) == p_value > current

\* SafeNumeric<T, NONE>::exchange_if_greater: the value stored and returned
None_exchange_if_greater(value, p_value) ==
    LET stored == IF p_value > value THEN p_value ELSE value
    IN  [ value |-> stored, ret |-> stored ]

NumericUnchanged ==
    UNCHANGED << Config, tracker, heap, requested, reports, hist, thist,
                 outstanding, sinceReset, aligned, statics >>

\* T current = value.load(); the loop is entered or current is returned
XgLoad(th) ==
    /\ th.pc = "idle"
    /\ \E p_value \in Values :
          LET current == numeric.value_
          IN  /\ numeric' = [ numeric EXCEPT !.greatest = Greater(@, p_value) ]
              /\ IF exchange_if_greater_loops(p_value, current)
                 THEN /\ threads' = Caller(th, "cas", p_value, current)
                      /\ UNCHANGED call
                 ELSE /\ threads' = Caller(th, "done", 0, 0)
                      /\ call' = NumericCall("exchange_if_greater", p_value,
                                             current, FALSE)
    /\ NumericUnchanged

\* value.compare_exchange_weak(current, p_value): return p_value, go round
\* the loop again or leave it and return current
XgCas(th) ==
    /\ th.pc = "cas"
    /\ LET r == compare_exchange_weak(numeric.value_, th.current, th.p_value)
       IN  /\ numeric' = [ numeric EXCEPT !.value_ = r.value ]
           /\ IF r.ok
              THEN /\ threads' = Caller(th, "done", 0, 0)
                   /\ call' = NumericCall("exchange_if_greater", th.p_value,
                                          th.p_value, TRUE)
              ELSE IF exchange_if_greater_loops(th.p_value, r.expected)
              THEN /\ threads' = Caller(th, "cas", th.p_value, r.expected)
                   /\ UNCHANGED call
              ELSE /\ threads' = Caller(th, "done", 0, 0)
                   /\ call' = NumericCall("exchange_if_greater", th.p_value,
                                          r.expected, FALSE)
    /\ NumericUnchanged

\* a whole call on the SafeNumeric<T, NONE>
XgNone ==
    /\ numeric.calls < MaxEvents
    /\ \E p_value \in Values :
          LET r == None_exchange_if_greater(numeric.plain, p_value)
          IN  /\ numeric' = [ numeric EXCEPT !.plain = r.value, !.calls = @ + 1 ]
              /\ call' = NumericCall("None_exchange_if_greater", p_value, r.ret,
                                     r.value # numeric.plain)
    /\ UNCHANGED threads
    /\ NumericUnchanged

\* both objects are constructed with an initial value; greatest is the
\* largest of it and of the arguments passed to the atomic one so far
InitExchange ==
    /\ Config = ThreadSafeConfig(TRUE)
    /\ InitIdle
    /\ threads = [ th \in { CallerIdle } |-> MaxThreads ]
    /\ \E initial_value \in Values :
          numeric = [ value_ |-> initial_value, plain |-> initial_value,
                      greatest |-> initial_value, calls |-> 0 ]

NextExchange ==
    \/ \E th \in BagToSet(threads) : XgLoad(th)
    \/ \E th \in BagToSet(threads) : XgCas(th)
    \/ XgNone

SpecExchange == InitExchange /\ [][NextExchange]_vars

(***************************************************************************)
(* SpecConditional: conditional_increment.  MaxThreads threads each make   *)
(* one call of conditional_increment, decrement or set on one              *)
(* SafeNumeric<T, STD_ATOMIC>; a sequential caller calls                   *)
(* conditional_increment on a SafeNumeric<T, NONE>.  numeric.by names the  *)
(* call that took the last step on the atomic object, numeric.failed tells *)
(* that a compare-exchange of conditional_increment has failed.            *)
(***************************************************************************)
\* mutant: the loop of conditional_increment is entered whatever was loaded
conditional_increment_always(current) == TRUE

\* SafeNumeric<T, STD_ATOMIC>::conditional_increment: while (current != 0)
conditional_increment_loops(current) == current # 0

\* SafeNumeric<T, NONE>::conditional_increment: the value stored and returned
None_conditional_increment(value) ==
    IF value = 0 THEN [ value |-> value, ret |-> 0 ]
    ELSE [ value |-> (value + 1) % Mod, ret |-> (value + 1) % Mod ]

\* SafeNumeric<T, STD_ATOMIC>::decrement: fetch_sub(1) - 1
decrement(value) == (value + Mod - 1) % Mod

\* T current = value.load(); the loop is entered or 0 is returned
CiLoad(th) ==
    /\ th.pc = "idle"
    /\ LET current == numeric.value_
       IN  /\ numeric' = [ numeric EXCEPT !.by = "conditional_increment" ]
           /\ IF conditional_increment_loops(current)
              THEN /\ threads' = Caller(th, "cas", 0, current)
                   /\ UNCHANGED call
              ELSE /\ threads' = Caller(th, "done", 0, 0)
                   /\ call' = NumericCall("conditional_increment", 0, 0, FALSE)
    /\ NumericUnchanged

\* value.compare_exchange_weak(current, current + 1): return current + 1, go
\* round the loop again or leave it and return 0
CiCas(th) ==
    /\ th.pc = "cas"
    /\ LET r == compare_exchange_weak(numeric.value_, th.current,
                                      (th.current + 1) % Mod)
       IN  /\ numeric' = [ numeric EXCEPT !.value_ = r.value,
                                          !.by = "conditional_increment",
                                          !.failed = @ \/ ~r.ok ]
           /\ IF r.ok
              THEN /\ threads' = Caller(th, "done", 0, 0)
                   /\ call' = NumericCall("conditional_increment", 0,
                                          (th.current + 1) % Mod, TRUE)
              ELSE IF conditional_increment_loops(r.expected)
              THEN /\ threads' = Caller(th, "cas", 0, r.expected)
                   /\ UNCHANGED call
              ELSE /\ threads' = Caller(th, "done", 0, 0)
                   /\ call' = NumericCall("conditional_increment", 0, 0, FALSE)
    /\ NumericUnchanged

\* decrement(): one fetch_sub
CiDecrement(th) ==
    /\ th.pc = "idle"
    /\ numeric' = [ numeric EXCEPT !.value_ = decrement(@), !.by = "decrement" ]
    /\ threads' = Caller(th, "done", 0, 0)
    /\ call' = NumericCall("decrement", 0, decrement(numeric.value_), TRUE)
    /\ NumericUnchanged

\* set(p_value): one store
CiSet(th) ==
    /\ th.pc = "idle"
    /\ \E p_value \in Values :
          /\ numeric' = [ numeric EXCEPT !.value_ = p_value, !.by = "set" ]
          /\ call' = NumericCall("set", p_value, 0, TRUE)
    /\ threads' = Caller(th, "done", 0, 0)
    /\ NumericUnchanged

\* a whole call on the SafeNumeric<T, NONE>
CiNone ==
    /\ numeric.calls < MaxEvents
    /\ LET r == None_conditional_increment(numeric.plain)
       IN  /\ numeric' = [ numeric EXCEPT !.plain = r.value, !.calls = @ + 1,
                                          !.by = "None_conditional_increment" ]
           /\ call' = NumericCall("None_conditional_increment", 0, r.ret,
                                  r.value # numeric.plain)
    /\ UNCHANGED threads
    /\ NumericUnchanged

\* both objects are constructed with an initial value, the largest value of
\* T included
InitConditional ==
    /\ Config = ThreadSafeConfig(TRUE)
    /\ InitIdle
    /\ threads = [ th \in { CallerIdle } |-> MaxThreads ]
    /\ \E initial_value \in Values \cup { Mod - 1 } :
          numeric = [ value_ |-> initial_value, plain |-> initial_value,
                      calls |-> 0, by |-> "none", failed |-> FALSE ]

NextConditional ==
    \/ \E th \in BagToSet(threads) : CiLoad(th)
    \/ \E th \in BagToSet(threads) : CiCas(th)
    \/ \E th \in BagToSet(threads) : CiDecrement(th)
    \/ \E th \in BagToSet(threads) : CiSet(th)
    \/ CiNone

SpecConditional == InitConditional /\ [][NextConditional]_vars

(***************************************************************************)
(* SpecLockFree: the loops of exchange_if_greater and conditional_increment *)
(* of one SafeNumeric<T, STD_ATOMIC> under scheduling.  The threads are    *)
(* numbered; they make MaxTracked calls between them, of                   *)
(* exchange_if_greater, conditional_increment or set.  A thread takes its  *)
(* steps when it is scheduled: thread 1 is scheduled again and again, any  *)
(* other thread may stop for good at any point.  compare_exchange_weak may *)
(* fail although the atomic holds the expected value; th.spurious tells    *)
(* that this has happened in the call of th, th.changed that an exchange   *)
(* of the call failed because the value had been changed.  A spurious      *)
(* failure does not recur for ever ([atomics.types.operations]: it should  *)
(* not consistently return false), which is what taking a spurious failure *)
(* after the first as a step that changes nothing, under weak fairness,    *)
(* amounts to.                                                             *)
(***************************************************************************)
LfThread(id) ==
    [ id |-> id, pc |-> "idle", op |-> "none", p_value |-> 0, current |-> 0,
      cycles |-> 0, changed |-> FALSE, spurious |-> FALSE ]

\* the threads once thread th has become the record t
LfThreads(th, t) == (threads (-) SetToBag({ th })) (+) SetToBag({ t })

\* thread th back from its call
LfReturned(th) ==
    [ LfThread(th.id) EXCEPT !.cycles = th.cycles + 1, !.op = th.op,
                            !.changed = th.changed, !.spurious = th.spurious ]

\* the condition of the while loop of the call th is in
LfLoops(op, p_value, current) ==
    IF op = "exchange_if_greater" THEN exchange_if_greater_loops(p_value, current)
    ELSE conditional_increment_loops(current)

\* the value the call passes to compare_exchange_weak as desired
LfDesired(th) ==
    IF th.op = "exchange_if_greater" THEN th.p_value ELSE (th.current + 1) % Mod

\* what the call returns when it leaves the loop by its condition
LfLeft(op, current) == IF op = "exchange_if_greater" THEN current ELSE 0

LfUnchanged ==
    UNCHANGED << Config, tracker, heap, requested, reports, hist, thist,
                 outstanding, sinceReset, aligned, statics >>

\* T current = value.load(); the loop is entered or the call returns
LfLoad(th) ==
    /\ th.pc = "idle"
    /\ CallsOf(threads) < MaxTracked
    /\ \E op \in { "exchange_if_greater", "conditional_increment" } :
       \E p_value \in IF op = "exchange_if_greater" THEN Values ELSE { 0 } :
          LET current == numeric.value_
              t == [ LfThread(th.id) EXCEPT !.op = op, !.p_value = p_value,
                                           !.current = current,
                                           !.cycles = th.cycles ]
          IN  IF LfLoops(op, p_value, current)
              THEN /\ threads' = LfThreads(th, [ t EXCEPT !.pc = "cas" ])
                   /\ UNCHANGED call
              ELSE /\ threads' = LfThreads(th, LfReturned(t))
                   /\ call' = NumericCall(op, p_value, LfLeft(op, current), FALSE)
    /\ UNCHANGED numeric
    /\ LfUnchanged

\* value.compare_exchange_weak(current, desired) compares: return desired,
\* go round the loop again or leave it
LfCas(th) ==
    /\ th.pc = "cas"
    /\ LET r == compare_exchange_weak(numeric.value_, th.current, LfDesired(th))
       IN  /\ numeric' = [ numeric EXCEPT !.value_ = r.value ]
           /\ IF r.ok
              THEN /\ threads' = LfThreads(th, LfReturned(th))
                   /\ call' = NumericCall(th.op, th.p_value, LfDesired(th), TRUE)
              ELSE IF LfLoops(th.op, th.p_value, r.expected)
              THEN /\ threads' = LfThreads(th, [ th EXCEPT !.current = r.expected,
                                                          !.changed = TRUE ])
                   /\ UNCHANGED call
              ELSE /\ threads' = LfThreads(th, LfReturned([ th EXCEPT !.changed = TRUE ]))
                   /\ call' = NumericCall(th.op, th.p_value,
                                          LfLeft(th.op, r.expected), FALSE)
    /\ LfUnchanged

\* value.compare_exchange_weak(current, desired) fails although the atomic
\* holds current: nothing is stored and the loop goes round again
LfSpurious(th) ==
    /\ th.pc = "cas"
    /\ numeric.value_ = th.current
    /\ threads' = LfThreads(th, [ th EXCEPT !.spurious = TRUE ])
    /\ UNCHANGED << numeric, call >>
    /\ LfUnchanged

\* set(p_value): one store
LfSet(th) ==
    /\ th.pc = "idle"
    /\ CallsOf(threads) < MaxTracked
    /\ \E p_value \in Values :
          /\ numeric' = [ numeric EXCEPT !.value_ = p_value ]
          /\ call' = NumericCall("set", p_value, 0, TRUE)
    /\ threads' = LfThreads(th, [ LfThread(th.id) EXCEPT !.cycles = th.cycles + 1,
                                                       !.op = "set" ])
    /\ LfUnchanged

\* the steps of the thread numbered id inside a loop
LfLoopStep(id) ==
    \E th \in BagToSet(threads) : th.id = id /\ (LfCas(th) \/ LfSpurious(th))

InitLockFree ==
    /\ Config = ThreadSafeConfig(TRUE)
    /\ InitIdle
    /\ threads = SetToBag({ LfThread(id) : id \in 1 .. MaxThreads })
    /\ \E initial_value \in Values : numeric = [ value_ |-> initial_value ]

NextLockFree ==
    \/ \E th \in BagToSet(threads) : LfLoad(th)
    \/ \E th \in BagToSet(threads) : LfCas(th)
    \/ \E th \in BagToSet(threads) : LfSpurious(th)
    \/ \E th \in BagToSet(threads) : LfSet(th)

SpecLockFree == InitLockFree /\ [][NextLockFree]_vars /\ WF_vars(LfLoopStep(1))

(***************************************************************************)
(* SpecErrors: error_handling.h in a program of one translation unit.      *)
(* The program installs handlers and reports errors until a handler calls  *)
(* std::abort.  error_handling.handled_by is the handler the last report   *)
(* was handed to, error_handling.cerr what that report made the default    *)
(* handler print, error_handling.installed the argument of the last        *)
(* set_memory_error_handler, error_handling.delivered the handlers that    *)
(* have been handed a report and error_handling.made the number of reports *)
(* made, MaxTracked at most.                                               *)
(***************************************************************************)
MemoryErrorType == { "MEM_ERROR", "MEM_WARNING", "MEM_ASSERTION", "MEM_FATAL" }

\* a null MemoryErrorHandler
NullHandler == "nullptr"

\* the handlers a program installs: two of its own, which return
CustomHandlers == { "custom_handler_1", "custom_handler_2" }

\* the switch of default_memory_error_handler
type_str(type) ==
    IF type = "MEM_ERROR" THEN "ERROR"
    ELSE IF type = "MEM_WARNING" THEN "WARNING"
    ELSE IF type = "MEM_ASSERTION" THEN "ASSERTION"
    ELSE IF type = "MEM_FATAL" THEN "FATAL"
    ELSE "UNKNOWN"

\* mutant: a default handler that calls std::abort for MEM_ERROR as well
default_memory_error_handler_strict(type) ==
    [ cerr |-> type_str(type), aborted |-> type # "MEM_WARNING" ]

\* default_memory_error_handler: what it prints and whether it calls
\* std::abort
default_memory_error_handler(type) ==
    [ cerr |-> type_str(type),
      aborted |-> type = "MEM_FATAL" \/ type = "MEM_ASSERTION" ]

\* mutant: set_memory_error_handler storing its argument as it is
set_memory_error_handler_raw(handler) == handler

\* set_memory_error_handler: the value g_memory_error_handler is given
set_memory_error_handler(handler) ==
    IF handler # NullHandler THEN handler ELSE "default_memory_error_handler"

ErrorsUnchanged ==
    UNCHANGED << Config, tracker, heap, requested, hist, thist, outstanding,
                 sinceReset, threads, aligned, numeric, allocations_mutex_, arrays >>

\* set_memory_error_handler(handler)
SetMemoryErrorHandler ==
    /\ ~error_handling.aborted
    /\ \E handler \in CustomHandlers \cup { NullHandler } :
          /\ error_handling' =
                [ error_handling EXCEPT
                     !.g_memory_error_handler = set_memory_error_handler(handler),
                     !.installed = handler ]
          /\ call' = [ op |-> "set_memory_error_handler", handler |-> handler ]
    /\ reports' = EmptyBag
    /\ ErrorsUnchanged

\* _memory_report_error(type, function, file, line, message), as the
\* expansion of MEMORY_ERROR, MEMORY_WARNING, MEMORY_FATAL or MEMORY_ASSERT
MemoryReportError ==
    /\ ~error_handling.aborted
    /\ error_handling.made < MaxTracked
    /\ \E type \in MemoryErrorType :
          LET handler == error_handling.g_memory_error_handler
              r == IF handler = "default_memory_error_handler"
                   THEN default_memory_error_handler(type)
                   ELSE [ cerr |-> "", aborted |-> FALSE ]
          IN  /\ error_handling' =
                    [ error_handling EXCEPT
                         !.handled_by = handler,
                         !.cerr = r.cerr,
                         !.aborted = r.aborted,
                         !.delivered = @ \cup { handler },
                         !.made = @ + 1 ]
              /\ reports' = SetToBag({ Report(type, "main", "main.cpp", 42,
                                              "message") })
              /\ call' = [ op |-> "_memory_report_error", type |-> type ]
    /\ ErrorsUnchanged

InitErrors ==
    /\ Config = DefaultConfig(TRUE)
    /\ InitCommon

NextErrors ==
    \/ SetMemoryErrorHandler
    \/ MemoryReportError

SpecErrors == InitErrors /\ [][NextErrors]_vars

(***************************************************************************)
(* SpecNumeric: one sequential caller applies the same operations, with    *)
(* the same arguments, to a SafeNumeric<T, NONE> (numeric.plain) and to a  *)
(* SafeNumeric<T, STD_ATOMIC> (numeric.value_) constructed with the same   *)
(* initial value.  T is memory_uint64_t, Mod wide.                         *)
(***************************************************************************)
\* SafeNumeric<T, NONE>: the value stored and the value returned
None_increment(value) ==
    [ value |-> (value + 1) % Mod, ret |-> (value + 1) % Mod ]

None_postincrement(value) ==
    [ value |-> (value + 1) % Mod, ret |-> value ]

None_decrement(value) ==
    [ value |-> (value + Mod - 1) % Mod, ret |-> (value + Mod - 1) % Mod ]

None_postdecrement(value) ==
    [ value |-> (value + Mod - 1) % Mod, ret |-> value ]

None_add(value, p_value) ==
    LET sum == (value + p_value) % Mod
    IN  [ value |-> sum, ret |-> sum ]

None_postadd(value, p_value) ==
    LET old_value == value
    IN  [ value |-> (value + p_value) % Mod, ret |-> old_value ]

None_sub(value, p_value) ==
    LET difference == (value + Mod - p_value) % Mod
    IN  [ value |-> difference, ret |-> difference ]

None_postsub(value, p_value) ==
    LET old_value == value
    IN  [ value |-> (value + Mod - p_value) % Mod, ret |-> old_value ]

\* std::atomic<T>::fetch_add / fetch_sub: the value stored and the value
\* held before
fetch_add(value, arg) == [ value |-> (value + arg) % Mod, old |-> value ]

fetch_sub(value, arg) == [ value |-> (value + Mod - arg) % Mod, old |-> value ]

\* SafeNumeric<T, STD_ATOMIC>: the value stored and the value returned
Atomic_increment(value) ==
    LET f == fetch_add(value, 1)
    IN  [ value |-> f.value, ret |-> (f.old + 1) % Mod ]

Atomic_postincrement(value) ==
    LET f == fetch_add(value, 1)
    IN  [ value |-> f.value, ret |-> f.old ]

Atomic_decrement(value) ==
    LET f == fetch_sub(value, 1)
    IN  [ value |-> f.value, ret |-> (f.old + Mod - 1) % Mod ]

Atomic_postdecrement(value) ==
    LET f == fetch_sub(value, 1)
    IN  [ value |-> f.value, ret |-> f.old ]

Atomic_add(value, p_value) ==
    LET f == fetch_add(value, p_value)
    IN  [ value |-> f.value, ret |-> (f.old + p_value) % Mod ]

\* mutant: postadd returns what add returns
Atomic_postadd_as_add(value, p_value) == Atomic_add(value, p_value)

Atomic_postadd(value, p_value) ==
    LET f == fetch_add(value, p_value)
    IN  [ value |-> f.value, ret |-> f.old ]

Atomic_sub(value, p_value) ==
    LET f == fetch_sub(value, p_value)
    IN  [ value |-> f.value, ret |-> (f.old + Mod - p_value) % Mod ]

Atomic_postsub(value, p_value) ==
    LET f == fetch_sub(value, p_value)
    IN  [ value |-> f.value, ret |-> f.old ]

\* the operations and the ones among them that take no argument
NumericOps ==
    { "increment", "postincrement", "decrement", "postdecrement",
      "add", "postadd", "sub", "postsub" }

UnaryOps == { "increment", "postincrement", "decrement", "postdecrement" }

\* the call op(p_value) on a SafeNumeric<T, NONE> holding value
None_call(op, value, p_value) ==
    CASE op = "increment" -> None_increment(value)
      [] op = "postincrement" -> None_postincrement(value)
      [] op = "decrement" -> None_decrement(value)
      [] op = "postdecrement" -> None_postdecrement(value)
      [] op = "add" -> None_add(value, p_value)
      [] op = "postadd" -> None_postadd(value, p_value)
      [] op = "sub" -> None_sub(value, p_value)
      [] op = "postsub" -> None_postsub(value, p_value)

\* the call op(p_value) on a SafeNumeric<T, STD_ATOMIC> holding value
Atomic_call(op, value, p_value) ==
    CASE op = "increment" -> Atomic_increment(value)
      [] op = "postincrement" -> Atomic_postincrement(value)
      [] op = "decrement" -> Atomic_decrement(value)
      [] op = "postdecrement" -> Atomic_postdecrement(value)
      [] op = "add" -> Atomic_add(value, p_value)
      [] op = "postadd" -> Atomic_postadd(value, p_value)
      [] op = "sub" -> Atomic_sub(value, p_value)
      [] op = "postsub" -> Atomic_postsub(value, p_value)

\* the arguments: small ones and the largest of T
NumericArgs == Values \cup { Mod - 1 }

\* one operation called on both objects; the call records both results
NumericStep ==
    /\ numeric.calls < MaxEvents
    /\ \E op \in NumericOps :
       \E p_value \in IF op \in UnaryOps THEN { 1 } ELSE NumericArgs :
          LET n == None_call(op, numeric.plain, p_value)
              a == Atomic_call(op, numeric.value_, p_value)
          IN  /\ numeric' = [ numeric EXCEPT !.plain = n.value, !.value_ = a.value,
                                             !.calls = @ + 1 ]
              /\ call' = [ op |-> op, p_value |-> p_value, ret |-> a.ret,
                           ret_none |-> n.ret ]
    /\ UNCHANGED threads
    /\ NumericUnchanged

InitNumeric ==
    /\ Config = ThreadSafeConfig(TRUE)
    /\ InitIdle
    /\ threads = [ th \in { CallerIdle } |-> MaxThreads ]
    /\ \E initial_value \in 0 .. Mod - 1 :
          numeric = [ value_ |-> initial_value, plain |-> initial_value,
                      calls |-> 0 ]

NextNumeric == NumericStep

SpecNumeric == InitNumeric /\ [][NextNumeric]_vars

(***************************************************************************)
(* Properties of the engine.                                               *)
(***************************************************************************)
\* aggregate (BasicMemoryTracker) or detailed (DetailedMemoryTracker) tracking
Tracking == Config.TRACKING_LEVEL \in { "BASIC", "DETAILED" }

RECURSIVE SumOver(_, _)
\* the sum of f over the set S
SumOver(f, S) ==
    IF S = {} THEN 0
    ELSE LET x == CHOOSE y \in S : TRUE
         IN  f[x] + SumOver(f, S \ {x})

\* the sum of the sizes requested for the live blocks
LiveBytes == SumOver(requested, DOMAIN requested)

\* C1: under aggregate or detailed tracking, after any sequence of
\* alloc_static and free_static calls, get_peak_usage() >= get_current_usage()
C1_PeakAtLeastCurrent ==
    Tracking => get_peak_usage(Config, tracker) >= get_current_usage(Config, tracker)

\* a free has brought the usage below a peak reached earlier
C1_Witness ==
    /\ Tracking
    /\ call.op = "free_static"
    /\ get_current_usage(Config, tracker) > 0
    /\ get_peak_usage(Config, tracker) > get_current_usage(Config, tracker)

\* C2 as stated: under aggregate or detailed tracking get_current_usage()
\* equals the sum of the sizes requested for the blocks not yet freed
C2_UsageIsLiveBytes_Original ==
    Tracking => get_current_usage(Config, tracker) = LiveBytes

\* C2 amended: the equality holds while every block was allocated with
\* padding in effect (an unpadded free reports size 0 to the tracker)
C2_UsageIsLiveBytes ==
    (Tracking /\ ~hist.plain) => get_current_usage(Config, tracker) = LiveBytes

\* a padded block was freed while another one stays live
C2_Witness ==
    /\ Tracking
    /\ ~hist.plain
    /\ call.op = "free_static"
    /\ DOMAIN heap # {}
    /\ get_current_usage(Config, tracker) = LiveBytes

\* C3 as stated: once the N blocks allocated so far are all freed,
\* current_usage == 0 and deallocation_count == allocation_count == N
C3_RoundTrip_Original ==
    (Tracking /\ DOMAIN heap = {}) =>
        /\ get_current_usage(Config, tracker) = 0
        /\ get_allocation_count(Config, tracker) = hist.allocs
        /\ get_stats(Config, tracker).deallocation_count = hist.allocs

\* C3 amended: the round trip holds when the blocks were allocated and freed
\* with padding in effect
C3_RoundTrip ==
    (Tracking /\ ~hist.plain /\ DOMAIN heap = {}) =>
        /\ get_current_usage(Config, tracker) = 0
        /\ get_allocation_count(Config, tracker) = hist.allocs
        /\ get_stats(Config, tracker).deallocation_count = hist.allocs

\* two padded blocks were allocated and both are freed
C3_Witness ==
    /\ Tracking
    /\ ~hist.plain
    /\ hist.allocs >= 2
    /\ DOMAIN heap = {}
    /\ call.op = "free_static"
    /\ get_peak_usage(Config, tracker) >= 2

(***************************************************************************)
(* Properties of the tracker called directly (SpecTracker).                *)
(***************************************************************************)
\* C4 as stated: over any sequence of track_allocation, track_deallocation,
\* track_reallocation and reset_stats calls, peak_usage never decreases from
\* one call to the next and equals the largest value current_usage has held
\* so far (read in the claim's favour: looked at only while no subtraction
\* since the last reset exceeded current_usage)
C4_PeakIsHistoricalMax_Original ==
    /\ [](~thist.underflow => get_peak_usage(Config, tracker) = thist.maxEver)
    /\ [][get_peak_usage(Config, tracker') >= get_peak_usage(Config, tracker)]_vars

\* C4 amended: peak_usage never decreases except at reset_stats, and while no
\* call since the last reset_stats subtracted more than current_usage it
\* equals the largest value current_usage has held since that reset
C4_PeakIsMaxSinceReset ==
    /\ [](~thist.underflow => get_peak_usage(Config, tracker) = thist.maxUsage)
    /\ [][call'.op # "reset_stats" =>
             get_peak_usage(Config, tracker') >= get_peak_usage(Config, tracker)]_vars

\* after a reset the usage rose to a new peak below the one reached before
\* the reset, and fell again
C4_Witness ==
    /\ thist.reset
    /\ ~thist.underflow
    /\ call.op \in { "track_deallocation", "track_reallocation" }
    /\ get_peak_usage(Config, tracker) = thist.maxUsage
    /\ get_peak_usage(Config, tracker) < thist.maxEver
    /\ get_current_usage(Config, tracker) < get_peak_usage(Config, tracker)
    /\ get_current_usage(Config, tracker) > 0

(***************************************************************************)
(* Properties of the concurrent tracker calls (SpecConc).                  *)
(***************************************************************************)
\* every thread has finished its MaxCycles cycles
AllThreadsDone ==
    \A th \in BagToSet(threads) : th.pc = "idle" /\ th.cycles = MaxCycles

\* no thread is inside a tracker call
AllCallsReturned ==
    \A th \in BagToSet(threads) : th.pc \in { "idle", "live" }

\* C5: under STD_ATOMIC, when MaxThreads threads have each run MaxCycles
\* allocate-then-free cycles concurrently, current_usage == 0 and
\* allocation_count == deallocation_count == MaxThreads * MaxCycles
C5_NoLostUpdate ==
    AllThreadsDone =>
        /\ get_current_usage(Config, tracker) = 0
        /\ get_allocation_count(Config, tracker) = MaxThreads * MaxCycles
        /\ get_stats(Config, tracker).deallocation_count = MaxThreads * MaxCycles

\* the threads are done and their allocations overlapped: the usage went
\* above what one thread holds
C5_Witness ==
    /\ AllThreadsDone
    /\ BagCardinality(threads) = MaxThreads
    /\ thist.maxUsage > MaxSize
    /\ get_allocation_count(Config, tracker) = MaxThreads * MaxCycles

IsLeakEntryOf(r, a) ==
    LET file == IF a.site.file # NullText THEN a.site.file ELSE "unknown"
        function == IF a.site.function # NullText THEN a.site.function ELSE "unknown"
    IN  /\ r.message = << "Leak: ", a.size, " bytes at ", file, ":", a.site.line >>
        /\ r.file = file
        /\ r.line = a.site.line
        /\ r.function = function

\* C7: for any sequence of track_allocation_with_ptr and
\* track_deallocation_with_ptr calls, dump_allocations reports exactly one
\* leak entry for each allocation not yet deallocated, carrying its size and
\* source location, and nothing when none is outstanding
C7_DumpListsOutstanding ==
    (call.op = "dump_allocations" /\ ~thist.reset) =>
        /\ BagCardinality(reports) = Cardinality(DOMAIN outstanding)
        /\ \A p \in DOMAIN outstanding :
              \E r \in BagToSet(reports) :
                 /\ IsLeakEntryOf(r, outstanding[p])
                 /\ CopiesIn(r, reports) =
                      Cardinality({ q \in DOMAIN outstanding :
                                      IsLeakEntryOf(r, outstanding[q]) })

\* three allocations were registered, one of them deallocated, and the dump
\* has two entries
C7_Witness ==
    /\ call.op = "dump_allocations"
    /\ ~thist.reset
    /\ tracker.allocation_count_ = 3
    /\ tracker.deallocation_count_ = 1
    /\ Cardinality(DOMAIN outstanding) = 2
    /\ BagCardinality(reports) = 2

\* C9 as stated: the registry holds a record for a pointer if and only if the
\* pointer was registered by track_allocation_with_ptr and not yet passed to
\* track_deallocation_with_ptr
C9_RecordIffOutstanding_Original ==
    DOMAIN tracker.allocations_ = DOMAIN outstanding

\* C9 amended: the registry holds a record for a pointer if and only if the
\* pointer was registered by track_allocation_with_ptr after the last
\* reset_stats and not yet passed to track_deallocation_with_ptr; the record
\* carries the size and the source location of that registration
C9_RecordIffRegisteredSinceReset ==
    /\ DOMAIN tracker.allocations_ = sinceReset
    /\ \A p \in sinceReset :
          /\ tracker.allocations_[p].size = outstanding[p].size
          /\ tracker.allocations_[p].file = outstanding[p].site.file
          /\ tracker.allocations_[p].line = outstanding[p].site.line

\* a reset dropped the record of a pointer still outstanding, another pointer
\* was registered after it, and a deallocation has removed a record
C9_Witness ==
    /\ thist.reset
    /\ call.op = "track_deallocation_with_ptr"
    /\ sinceReset # {}
    /\ sinceReset # DOMAIN outstanding
    /\ DOMAIN tracker.allocations_ = sinceReset

\* the pointer a track_deallocation_with_ptr step was passed
Deallocated == CHOOSE p \in DOMAIN outstanding : p \notin DOMAIN outstanding'

\* C23: track_deallocation_with_ptr(p) for a pointer with a record removes
\* that record and no other, leaves the other records as they are, and
\* decreases the current usage by the size stored in the record
C23_DeallocationByRecord ==
    [][(/\ call'.op = "track_deallocation_with_ptr"
        /\ Deallocated \in DOMAIN tracker.allocations_) =>
          /\ DOMAIN tracker'.allocations_
                = DOMAIN tracker.allocations_ \ { Deallocated }
          /\ \A q \in DOMAIN tracker'.allocations_ :
                tracker'.allocations_[q] = tracker.allocations_[q]
          /\ tracker'.current_usage_
                = (tracker.current_usage_ + Mod
                   - tracker.allocations_[Deallocated].size) % Mod]_vars

\* three pointers were registered and one of them deallocated: two records
\* are left and the usage is the sum of their sizes
C23_Witness ==
    /\ call.op = "track_deallocation_with_ptr"
    /\ tracker.allocation_count_ = 3
    /\ tracker.deallocation_count_ = 1
    /\ Cardinality(DOMAIN tracker.allocations_) = 2
    /\ DOMAIN tracker.allocations_ = DOMAIN outstanding
    /\ tracker.current_usage_
         = SumOver([ q \in DOMAIN tracker.allocations_ |->
                       tracker.allocations_[q].size ],
                   DOMAIN tracker.allocations_)
    /\ tracker.current_usage_ < tracker.peak_usage_

(***************************************************************************)
(* Properties of the registry under concurrent calls.                      *)
(***************************************************************************)
\* the positions at which a thread reads or changes allocations_
RegistryAccess == { "awp_insert", "dwp_find", "reset_clear", "dump_enum" }

\* the number of threads at one of the positions S
ThreadsAt(S) ==
    SumOver([ th \in BagToSet(threads) |->
                IF th.pc \in S THEN CopiesIn(th, threads) ELSE 0 ],
            BagToSet(threads))

\* C24: a thread is inside an access to the registry (the insert of
\* track_allocation_with_ptr, the lookup and removal of
\* track_deallocation_with_ptr, the clear of reset_stats, the enumeration of
\* dump_allocations) only while allocations_mutex_ is held, at most one
\* thread is inside such an access at a time, and while a thread enumerates
\* the registry no other thread is inserting, removing or clearing
C24_RegistryUnderMutex ==
    /\ ThreadsAt(RegistryAccess) <= 1
    /\ ThreadsAt(RegistryAccess) = 1 <=> allocations_mutex_
    /\ ThreadsAt({ "dump_enum" }) = 1
          => ThreadsAt({ "awp_insert", "dwp_find", "reset_clear" }) = 0

\* a thread enumerates a registry holding a record while another thread
\* waits for the mutex to insert its record
C24_Witness ==
    /\ ThreadsAt({ "dump_enum" }) = 1
    /\ ThreadsAt({ "awp_lock" }) = 1
    /\ allocations_mutex_
    /\ DOMAIN tracker.allocations_ # {}

(***************************************************************************)
(* Properties of the compare-and-swap loops under scheduling.              *)
(***************************************************************************)
\* thread th has gone through an iteration of its loop that stored nothing
\* (a successful exchange changes the value: the desired value of either
\* loop differs from the expected one)
IterationFailed(th) ==
    /\ th.pc = "cas"
    /\ th \notin BagToSet(threads')
    /\ numeric' = numeric

\* the thread numbered id is inside a loop
InLoop(id) == \E th \in BagToSet(threads) : th.id = id /\ th.pc = "cas"

\* C25 as stated, its first part: an iteration of a loop fails only when the
\* atomic no longer holds the value the thread had loaded, that is when
\* another thread has changed it
C25_FailsOnlyWhenChanged_Original ==
    [][\A th \in BagToSet(threads) :
          IterationFailed(th) => numeric.value_ # th.current]_vars

\* C25 amended: an iteration of a loop fails only when the atomic no longer
\* holds the value the thread had loaded or when compare_exchange_weak fails
\* spuriously; a thread that keeps being scheduled and whose
\* compare_exchange_weak does not fail spuriously for ever returns from its
\* call, the other threads making finitely many updates, whether they go on
\* or stop inside their own calls
C25_LockFree ==
    /\ [][\A th \in BagToSet(threads) :
            IterationFailed(th) =>
               \/ numeric.value_ # th.current
               \/ \E t \in BagToSet(threads') :
                     t.id = th.id /\ t.spurious /\ ~th.spurious]_vars
    /\ InLoop(1) ~> ~InLoop(1)

\* thread 1 is back from a call in which one exchange failed spuriously and
\* another because the value had been changed, while another thread is
\* inside a loop
C25_Witness ==
    /\ \E th \in BagToSet(threads) :
          /\ th.id = 1 /\ th.pc = "idle" /\ th.cycles = 1
          /\ th.changed /\ th.spurious
    /\ \E th \in BagToSet(threads) : th.id # 1 /\ th.pc = "cas"

(***************************************************************************)
(* Properties of the error handling.                                       *)
(***************************************************************************)
\* C26: a report goes to the handler installed when it is made; the default
\* handler terminates the process for MEM_FATAL and MEM_ASSERTION only and
\* returns for MEM_ERROR and MEM_WARNING; set_memory_error_handler(h)
\* installs h, so that the later reports go to h, and a null h installs the
\* default handler
C26_ReportsGoToInstalledHandler ==
    [][/\ call'.op = "_memory_report_error" =>
            /\ error_handling'.handled_by = error_handling.g_memory_error_handler
            /\ error_handling'.g_memory_error_handler
                  = error_handling.g_memory_error_handler
            /\ error_handling'.handled_by = "default_memory_error_handler" =>
                  (error_handling'.aborted
                     <=> call'.type \in { "MEM_FATAL", "MEM_ASSERTION" })
       /\ call'.op = "set_memory_error_handler" =>
            /\ error_handling'.g_memory_error_handler
                  = IF call'.handler = NullHandler
                    THEN "default_memory_error_handler"
                    ELSE call'.handler
            /\ ~error_handling'.aborted]_vars

\* a handler of the program had been installed and received a report, a null
\* handler was passed, and the MEM_FATAL report made after it went to the
\* default handler, which terminated the process
C26_Witness ==
    /\ call.op = "_memory_report_error"
    /\ call.type = "MEM_FATAL"
    /\ error_handling.handled_by = "default_memory_error_handler"
    /\ error_handling.cerr = "FATAL"
    /\ error_handling.aborted
    /\ error_handling.installed = NullHandler
    /\ error_handling.delivered
         = { "custom_handler_1", "default_memory_error_handler" }

(***************************************************************************)
(* Properties of the statistics snapshot.                                  *)
(***************************************************************************)
\* C27 as stated: total_allocated of the snapshot is the cumulative number
\* of bytes allocated and total_freed the cumulative number of bytes freed:
\* a call that reports track_allocation(size) raises total_allocated by size
\* and one that reports track_deallocation(size) raises total_freed by size
C27_TotalsAreBytes ==
    [][(Tracking /\ call'.track # << >>) =>
          LET t == call'.track[1]
              s == get_stats(Config, tracker)
              u == get_stats(Config, tracker')
          IN  /\ t.fn = "track_allocation" =>
                    /\ u.total_allocated = (s.total_allocated + t.size) % Mod
                    /\ u.total_freed = s.total_freed
              /\ t.fn = "track_deallocation" =>
                    /\ u.total_freed = (s.total_freed + t.size) % Mod
                    /\ u.total_allocated = s.total_allocated]_vars

(***************************************************************************)
(* Properties of the tracker: paired events.                               *)
(***************************************************************************)
\* C28: while every track_deallocation passes the size of a block allocated
\* earlier and not yet deallocated, and every track_reallocation passes the
\* size the block has as old_size, no subtraction takes current_usage below
\* zero: none exceeds the usage it is applied to, and the usage is the sum
\* of the sizes of the blocks outstanding
C28_NoWrapBelowZero ==
    /\ ~thist.underflow
    /\ get_current_usage(Config, tracker)
         = SumOver([ p \in DOMAIN outstanding |-> outstanding[p].size ],
                   DOMAIN outstanding)

\* blocks were allocated, one was shrunk, and all have been deallocated: the
\* usage is back at zero below a peak of more than one block
C28_Witness ==
    /\ call.op = "track_deallocation"
    /\ DOMAIN outstanding = {}
    /\ tracker.allocation_count_ = MaxTracked
    /\ tracker.deallocation_count_ = MaxTracked
    /\ tracker.reallocation_count_ > 0
    /\ get_current_usage(Config, tracker) = 0
    /\ get_peak_usage(Config, tracker) > MaxSize
    /\ get_peak_usage(Config, tracker) < MaxTracked * MaxSize

\* C29 as stated: every record track_allocation_with_ptr registers has an
\* allocation identifier strictly greater than that of every record
\* registered before it, whatever the calls and however they interleave, and
\* so no two records of the registry share an identifier
C29_IdentifiersIncrease ==
    /\ [][\A p \in DOMAIN tracker'.allocations_ :
            p \notin DOMAIN tracker.allocations_ =>
               tracker'.allocations_[p].allocation_id > hist.registered]_vars
    /\ [](\A p, q \in DOMAIN tracker.allocations_ :
             p # q => tracker.allocations_[p].allocation_id
                        # tracker.allocations_[q].allocation_id)

\* the threads that hold an identifier for a record not yet inserted
Registering == { th \in BagToSet(threads) : th.pc \in { "awp_lock", "awp_insert" } }

\* C29 amended: as long as reset_stats has not been called, the
\* identifiers issued, those of the records in the registry and those held
\* by the calls about to insert theirs, are all different and none exceeds
\* the identifier counter, so that an identifier issued later is greater
\* than all of them, whatever the calls and however they interleave
C29_IdentifiersDistinct ==
    ~thist.reset =>
       /\ \A p, q \in DOMAIN tracker.allocations_ :
             p # q => tracker.allocations_[p].allocation_id
                        # tracker.allocations_[q].allocation_id
       /\ \A th \in Registering :
             /\ CopiesIn(th, threads) = 1
             /\ \A t \in Registering : t # th => t.alloc_id # th.alloc_id
             /\ \A p \in DOMAIN tracker.allocations_ :
                   tracker.allocations_[p].allocation_id # th.alloc_id
             /\ th.alloc_id >= 1 /\ th.alloc_id <= tracker.next_allocation_id_
       /\ \A p \in DOMAIN tracker.allocations_ :
             /\ tracker.allocations_[p].allocation_id >= 1
             /\ tracker.allocations_[p].allocation_id <= tracker.next_allocation_id_
       /\ hist.registered <= tracker.next_allocation_id_

\* no reset has been called; the record with identifier 2 is in the registry
\* while the call that was issued identifier 1 waits for the mutex
C29_Witness ==
    /\ ~thist.reset
    /\ \E p \in DOMAIN tracker.allocations_ :
          tracker.allocations_[p].allocation_id = 2
    /\ \E th \in Registering : th.pc = "awp_lock" /\ th.alloc_id = 1
    /\ allocations_mutex_ = FALSE

(***************************************************************************)
(* Properties of the tracker: reset_stats.                                 *)
(***************************************************************************)
\* C30: once reset_stats has returned, no other call running beside it, the
\* current usage, the peak usage and the allocation, deallocation and
\* reallocation counts read zero, and under detailed tracking the registry
\* is empty, so that dump_allocations reports nothing
C30_ResetZeroes ==
    /\ call.op = "dump_allocations" /\ Config.TRACKING_LEVEL = "DETAILED" =>
          reports = EmptyBag
    /\ call.op = "reset_stats" =>
          /\ get_current_usage(Config, tracker) = 0
          /\ get_peak_usage(Config, tracker) = 0
          /\ get_allocation_count(Config, tracker) = 0
          /\ get_stats(Config, tracker).current_usage = 0
          /\ get_stats(Config, tracker).peak_usage = 0
          /\ get_stats(Config, tracker).allocation_count = 0
          /\ get_stats(Config, tracker).deallocation_count = 0
          /\ get_stats(Config, tracker).reallocation_count = 0
          /\ Config.TRACKING_LEVEL = "DETAILED" =>
                /\ DOMAIN tracker.allocations_ = {}
                /\ dump_allocations(Config, tracker) = EmptyBag

\* the detailed tracker was reset while pointers it had registered were
\* outstanding, after the usage had been above zero, and its registry was
\* then dumped
C30_Witness ==
    /\ call.op = "dump_allocations"
    /\ reports = EmptyBag
    /\ Config = DebugConfig
    /\ Cardinality(DOMAIN outstanding) = 2
    /\ thist.maxEver > MaxSize
    /\ tracker.current_usage_ = 0
    /\ DOMAIN tracker.allocations_ = {}

(***************************************************************************)
(* Properties of the engine: a resize the system allocator refuses.        *)
(***************************************************************************)
\* a padded realloc_static of p_memory has returned nullptr because
\* std::realloc did, in the step from the unprimed to the primed state
ResizeRefused(p_memory) ==
    /\ call'.op = "realloc_static"
    /\ call'.prepad
    /\ call'.ret = nullptr
    /\ reports' = ErrFail("realloc_static", 594, << "Null pointer: ", "mem" >>)
    /\ p_memory \in DOMAIN heap'

\* C33: a padded realloc_static whose std::realloc fails returns nullptr and
\* leaves the state as it was: the block is live, its size header holds the
\* old size, current_usage and reallocation_count are unchanged
C33_FailedResizeLeavesState ==
    [][\A p_memory \in DOMAIN heap :
          ResizeRefused(p_memory) =>
             /\ heap'[p_memory].size_hdr = heap[p_memory].size_hdr
             /\ tracker'.current_usage_ = tracker.current_usage_
             /\ tracker'.reallocation_count_ = tracker.reallocation_count_]_vars

(***************************************************************************)
(* Properties of realloc_aligned_static (SpecRealign).                     *)
(***************************************************************************)
\* the step is a realloc_aligned_static of a live block
RealignLive == call'.op = "realloc_aligned_static" /\ ~call'.null

\* C34: when the allocation of the new block fails inside
\* realloc_aligned_static called with a non-null pointer, nullptr is
\* returned, the old block stays allocated as it was and the statistics of
\* the tracker are unchanged
C34_FailedRealignKeepsOld ==
    [][(RealignLive /\ call'.ret = nullptr) =>
          /\ heap' = heap
          /\ requested' = requested
          /\ tracker' = tracker]_vars

\* C35: the copy realloc_aligned_static makes from the old block to the new
\* one reads no more than the p_prev_bytes bytes of the old block and
\* writes no more than the p_bytes bytes of the new block, shrinking
\* included
C35_CopyWithinBlocks ==
    (call.op = "realloc_aligned_static" /\ ~call.null /\ call.ret # nullptr) =>
       /\ hist.copied <= call.was
       /\ hist.copied <= requested[call.ret]

\* C36: a successful realloc_aligned_static of a live block from
\* p_prev_bytes to p_bytes changes the current usage by p_bytes -
\* p_prev_bytes and leaves allocation_count - deallocation_count unchanged
C36_RealignAccounting ==
    [][(RealignLive /\ call'.ret # nullptr /\ Tracking) =>
          /\ tracker'.current_usage_
                = (tracker.current_usage_ + requested'[call'.ret] + Mod - call'.was) % Mod
          /\ (tracker'.allocation_count_ + Mod - tracker'.deallocation_count_) % Mod
                = (tracker.allocation_count_ + Mod - tracker.deallocation_count_) % Mod]_vars

(***************************************************************************)
(* Properties of the array helpers (SpecArrays).                           *)
(***************************************************************************)
\* C37: whatever should_use_padding resolves to for the default engine, the
\* element-count slot of every array of memnew_arr_template lies inside the
\* block obtained from the system allocator, and memarr_len returns the
\* element count passed at allocation
C37_ElementCountSlot ==
    \A p_class \in DOMAIN arrays.count :
       /\ ElementSlotInside(heap[p_class])
       /\ arrays.of = p_class => arrays.len = arrays.count[p_class]

(***************************************************************************)
(* Properties of the detailed tracker: pointers without a record.          *)
(***************************************************************************)
\* the step is a track_deallocation_with_ptr of a pointer without a record:
\* one that is not outstanding, or one whose record reset_stats took
DeallocatesUnregistered ==
    /\ call'.op = "track_deallocation_with_ptr"
    /\ \/ outstanding' = outstanding
       \/ Deallocated \notin DOMAIN tracker.allocations_

\* C38: track_deallocation_with_ptr(p) for a pointer without a record leaves
\* the current usage, the peak usage and the registry unchanged, reports
\* nothing, and increments deallocation_count all the same
C38_UnregisteredDeallocation ==
    [][DeallocatesUnregistered =>
          /\ tracker'.current_usage_ = tracker.current_usage_
          /\ tracker'.peak_usage_ = tracker.peak_usage_
          /\ tracker'.allocations_ = tracker.allocations_
          /\ tracker'.allocation_count_ = tracker.allocation_count_
          /\ reports' = EmptyBag
          /\ tracker'.deallocation_count_
                = (tracker.deallocation_count_ + 1) % Mod]_vars

\* a pointer was registered and deallocated twice: the registry is empty,
\* the usage is zero, and more deallocations than allocations are counted
C38_Witness ==
    /\ call.op = "track_deallocation_with_ptr"
    /\ ~thist.reset
    /\ tracker.allocation_count_ = 1
    /\ tracker.deallocation_count_ = 2
    /\ tracker.current_usage_ = 0
    /\ tracker.peak_usage_ > 0
    /\ DOMAIN tracker.allocations_ = {}
    /\ outstanding = EmptyMap

\* C39: with only the calls that carry a pointer, at every quiescent point
\* the current usage is the sum of the sizes of the records in the
\* registry, also after a pointer has been registered a second time without
\* a deallocation between
C39_UsageIsRegistrySum ==
    get_current_usage(Config, tracker)
       = SumOver([ p \in DOMAIN tracker.allocations_ |-> tracker.allocations_[p].size ],
                 DOMAIN tracker.allocations_)

(***************************************************************************)
(* Properties of the engine: the counts against the live blocks.           *)
(***************************************************************************)
\* C40: under a counting tracker, at every quiescent point of a sequence of
\* engine calls, realloc_static with a null pointer and with new size 0
\* among them, allocation_count - deallocation_count is the number of
\* blocks that are live
C40_CountsMatchLiveBlocks ==
    Tracking =>
       (get_stats(Config, tracker).allocation_count + Mod
          - get_stats(Config, tracker).deallocation_count) % Mod
          = Cardinality(DOMAIN heap)

(***************************************************************************)
(* Properties of the tracker: the peak against the usage across resets.    *)
(***************************************************************************)
\* C32: at every quiescent point of an execution of paired allocations,
\* deallocations and reallocations with reset_stats called in between, also
\* while blocks are outstanding that are freed later, the peak usage is at
\* least the current usage
C32_PeakAtLeastUsage ==
    get_peak_usage(Config, tracker) >= get_current_usage(Config, tracker)

(***************************************************************************)
(* Properties of the detailed tracker: the calls without a pointer.        *)
(***************************************************************************)
\* C31: under detailed tracking track_allocation(size) adds size to the
\* current usage, raises the peak to it and counts one allocation,
\* track_deallocation(size) subtracts size and counts one deallocation, and
\* neither adds, removes or changes a record of the registry
C31_PointerlessLeavesRegistry ==
    [][/\ call'.op = "track_allocation" =>
             /\ tracker'.allocations_ = tracker.allocations_
             /\ tracker'.allocation_count_ = (tracker.allocation_count_ + 1) % Mod
             /\ tracker'.deallocation_count_ = tracker.deallocation_count_
             /\ \E size \in Sizes :
                   /\ tracker'.current_usage_ = (tracker.current_usage_ + size) % Mod
                   /\ tracker'.peak_usage_
                        = IF tracker'.current_usage_ > tracker.peak_usage_
                          THEN tracker'.current_usage_
                          ELSE tracker.peak_usage_
       /\ call'.op = "track_deallocation" =>
             /\ tracker'.allocations_ = tracker.allocations_
             /\ tracker'.deallocation_count_ = (tracker.deallocation_count_ + 1) % Mod
             /\ tracker'.allocation_count_ = tracker.allocation_count_
             /\ tracker'.peak_usage_ = tracker.peak_usage_
             /\ \E size \in Sizes :
                   tracker'.current_usage_ = (tracker.current_usage_ + Mod - size) % Mod]_vars

\* with two records in the registry the detailed tracker was told of an
\* allocation and of a deallocation without a pointer: the counts moved and
\* the two records are still there
C31_Witness ==
    /\ call.op = "track_deallocation"
    /\ Config = DebugConfig
    /\ Cardinality(DOMAIN tracker.allocations_) = 2
    /\ tracker.allocation_count_ = 3
    /\ tracker.deallocation_count_ = 1
    /\ DOMAIN tracker.allocations_ = DOMAIN outstanding

(***************************************************************************)
(* Properties of the engine: error paths.                                  *)
(***************************************************************************)
\* C11: free_static(nullptr) reports an error to the error handler, performs
\* no system deallocation (the heap is as before) and leaves every tracking
\* counter unchanged
C11_FreeNullReportsOnly ==
    [][(call'.op = "free_static" /\ call'.null) =>
          /\ BagCardinality(reports') = 1
          /\ \A r \in BagToSet(reports') :
                r.type = "MEM_ERROR" /\ r.function = "free_static"
          /\ heap' = heap
          /\ tracker' = tracker
          /\ get_stats(Config, tracker') = get_stats(Config, tracker)]_vars

\* free_static(nullptr) was called while a tracked block is live
C11_Witness ==
    /\ call.op = "free_static"
    /\ call.null
    /\ Tracking
    /\ DOMAIN heap # {}
    /\ get_allocation_count(Config, tracker) > 0
    /\ BagCardinality(reports) = 1

\* the step is an alloc_static call (made directly or forwarded by
\* realloc_static(nullptr, ...)) in which the system allocator failed
AllocFailed ==
    /\ call'.ret = nullptr
    /\ \/ call'.op = "alloc_static"
       \/ call'.op = "realloc_static" /\ call'.null

\* C12: when the system allocator fails inside alloc_static, the call
\* notifies the error handler once with error severity, returns null, has
\* obtained no block and leaves the tracker as it was
C12_AllocFailureReportsOnly ==
    [][AllocFailed =>
          /\ BagCardinality(reports') = 1
          /\ \A r \in BagToSet(reports') :
                r.type = "MEM_ERROR" /\ r.function = "alloc_static"
          /\ call'.track = << >>
          /\ heap' = heap
          /\ tracker' = tracker
          /\ get_stats(Config, tracker') = get_stats(Config, tracker)]_vars

\* an allocation failed after an earlier one had succeeded under tracking
C12_Witness ==
    /\ call.op = "alloc_static"
    /\ call.ret = nullptr
    /\ Tracking
    /\ DOMAIN heap # {}
    /\ get_allocation_count(Config, tracker) = 1
    /\ BagCardinality(reports) = 1

\* the step is a realloc_static call on a live allocation
ReallocLive == call'.op = "realloc_static" /\ ~call'.null

\* the statistics move as for a reallocation from old to new bytes
ReallocAccounted(old, new) ==
    /\ get_current_usage(Config, tracker')
          = (get_current_usage(Config, tracker) + new + Mod - old) % Mod
    /\ get_stats(Config, tracker').reallocation_count
          = (get_stats(Config, tracker).reallocation_count + 1) % Mod

\* C13 as stated: under aggregate or detailed tracking every reallocation of
\* a live allocation from old to new bytes changes current_usage by new - old
\* and reallocation_count by 1
C13_ReallocDelta_Original ==
    [][(ReallocLive /\ Tracking) =>
          ReallocAccounted(call'.was, call'.track[1].size)]_vars

\* C13 amended: the same for reallocations made with padding in effect, old
\* being the size last requested for the block (the one its header holds)
C13_ReallocDelta ==
    [][(ReallocLive /\ Tracking /\ call'.prepad) =>
          ReallocAccounted(call'.was, call'.track[1].size)]_vars

\* a padded block of 2 bytes was shrunk to 1 byte beside another live block
C13_Witness ==
    /\ call.op = "realloc_static" /\ ~call.null /\ call.prepad
    /\ call.ret # nullptr
    /\ Tracking
    /\ call.was = 2 /\ call.track[1].size = 1
    /\ Cardinality(DOMAIN heap) = 2
    /\ get_stats(Config, tracker).reallocation_count = 1

(***************************************************************************)
(* Properties of the aligned allocations (SpecAligned).                    *)
(***************************************************************************)
\* C14: for every power-of-two alignment and every size the address
\* alloc_aligned_static returned is a multiple of the alignment, the offset
\* slot before it and the user range after it lie inside the block obtained
\* from std::malloc, and free_aligned_static passes the address of that block
\* to std::free
C14_AlignedLayout ==
    /\ aligned.live =>
          /\ aligned.p2 % aligned.alignment = 0
          /\ InsideRaw(aligned, aligned.p2 - SizeofUint32, aligned.p2)
          /\ InsideRaw(aligned, aligned.p2, aligned.p2 + aligned.size)
    /\ call.op = "free_aligned_static" => aligned.freed = aligned.p1

(***************************************************************************)
(* Properties of the no-op strategy.                                       *)
(***************************************************************************)
\* C15: under the no-op strategy (TRACKING_LEVEL NONE) get_current_usage,
\* get_peak_usage, get_allocation_count and every field of get_stats are
\* zero after any sequence of allocations, deallocations and reallocations
C15_NoOpReportsZero ==
    Config.TRACKING_LEVEL = "NONE" =>
       /\ get_current_usage(Config, tracker) = 0
       /\ get_peak_usage(Config, tracker) = 0
       /\ get_allocation_count(Config, tracker) = 0
       /\ \A f \in DOMAIN get_stats(Config, tracker) :
             get_stats(Config, tracker)[f] = 0

\* the no-op strategy has been told of an allocation, a reallocation and a
\* deallocation, and a block is still live
C15_Witness ==
    /\ Config.TRACKING_LEVEL = "NONE"
    /\ hist.allocs = MaxCount
    /\ hist.reallocs >= 1
    /\ call.op = "free_static" /\ ~call.null
    /\ DOMAIN heap # {}

(***************************************************************************)
(* Properties of SafeNumeric (SpecExchange).                               *)
(***************************************************************************)
\* every call on the atomic object has returned
AllExchangesReturned == \A th \in BagToSet(threads) : th.pc = "done"

\* C16: exchange_if_greater(v) stores v if and only if v exceeds the stored
\* value and returns the value stored afterwards; under the atomic policy,
\* in every interleaving of concurrent calls, the stored value never
\* decreases, a call that stored its argument returns it and any other
\* returns a value it found stored that its argument does not exceed, and
\* once all calls have returned the stored value is the greatest of the
\* initial value and all arguments
C16_ExchangeIfGreater ==
    [][/\ numeric'.value_ >= numeric.value_
       /\ numeric'.calls > numeric.calls =>
             /\ call'.stored <=> call'.p_value > numeric.plain
             /\ numeric'.plain = IF call'.stored THEN call'.p_value
                                                ELSE numeric.plain
             /\ call'.ret = numeric'.plain
       /\ CopiesIn(CallerDone, threads') > CopiesIn(CallerDone, threads) =>
             /\ call'.stored =>
                   /\ call'.p_value > numeric.value_
                   /\ call'.ret = call'.p_value
                   /\ numeric'.value_ = call'.p_value
             /\ ~call'.stored =>
                   /\ call'.p_value <= call'.ret
                   /\ call'.ret <= numeric'.value_
                   /\ numeric'.value_ = numeric.value_
       /\ AllExchangesReturned' => numeric'.value_ = numeric'.greatest]_vars

\* all calls have returned, one of them after another call had made its
\* exchange fail, and the object holds more than its initial value
C16_Witness ==
    /\ AllExchangesReturned
    /\ call.op = "exchange_if_greater" /\ ~call.stored
    /\ call.p_value > 0 /\ call.p_value < call.ret
    /\ numeric.value_ = MaxSize
    /\ numeric.plain = numeric.value_
    /\ numeric.calls > 0

(***************************************************************************)
(* Properties of SafeNumeric (SpecConditional).                            *)
(***************************************************************************)
\* C17: conditional_increment() adds one (modulo 2^64) and returns the new
\* value if and only if the stored value is nonzero, and otherwise returns 0
\* leaving the value 0; under the atomic policy, in every interleaving with
\* decrement and set calls, no step of conditional_increment changes a
\* stored 0, and the step that stores adds one to a nonzero value and
\* returns the sum
C17_ConditionalIncrement ==
    [][/\ numeric'.calls > numeric.calls =>
             /\ call'.stored <=> numeric.plain # 0
             /\ numeric'.plain = IF numeric.plain # 0
                                 THEN (numeric.plain + 1) % Mod ELSE 0
             /\ call'.ret = numeric'.plain
       /\ numeric'.by = "conditional_increment" =>
             /\ numeric.value_ = 0 => numeric'.value_ = 0
             /\ numeric'.value_ # numeric.value_ =>
                   /\ numeric'.value_ = (numeric.value_ + 1) % Mod
                   /\ call'.op = "conditional_increment" /\ call'.stored
                   /\ call'.ret = numeric'.value_
             /\ (/\ CopiesIn(CallerDone, threads') > CopiesIn(CallerDone, threads)
                 /\ ~call'.stored) =>
                   call'.ret = 0 /\ numeric'.value_ = numeric.value_]_vars

\* a conditional_increment loaded a nonzero value, a decrement then brought
\* the object to 0, and the call returned 0 leaving the 0
C17_Witness ==
    /\ call.op = "conditional_increment" /\ ~call.stored
    /\ numeric.by = "conditional_increment"
    /\ numeric.failed
    /\ numeric.value_ = 0
    /\ \A th \in BagToSet(threads) : th.pc = "done"
    /\ numeric.plain > 1

(***************************************************************************)
(* Properties of SafeNumeric (SpecNumeric).                                *)
(***************************************************************************)
\* the value an operation leaves when applied to value (modulo 2^64)
ValueAfter(op, value, p_value) ==
    IF op \in { "increment", "postincrement", "add", "postadd" }
    THEN (value + p_value) % Mod
    ELSE (value + Mod - p_value) % Mod

\* C18: for both policies increment, decrement, add and sub return the value
\* after the update and the post... operations the value before it, so over
\* every sequential sequence of operations the unsynchronized and the atomic
\* counter return the same results and hold the same value
C18_PoliciesAgree ==
    [][numeric'.calls > numeric.calls =>
          /\ numeric'.value_ = ValueAfter(call'.op, numeric.value_, call'.p_value)
          /\ numeric'.plain = numeric'.value_
          /\ call'.ret = IF call'.op \in { "increment", "decrement", "add", "sub" }
                         THEN numeric'.value_ ELSE numeric.value_
          /\ call'.ret_none = call'.ret]_vars

\* after a subtraction that wrapped below zero, a postadd wrapped back and
\* returned the value before it
C18_Witness ==
    /\ numeric.calls = MaxEvents
    /\ call.op = "postadd"
    /\ call.ret = Mod - 1 /\ call.ret_none = Mod - 1
    /\ call.p_value = 2
    /\ numeric.value_ = 1 /\ numeric.plain = 1

(***************************************************************************)
(* Properties of the engine: realloc_static.                               *)
(***************************************************************************)
\* what a call that allocates does, told by its result: on failure one
\* report and nothing else; on success one block of n bytes whose header,
\* with padding, holds n, one allocation of n bytes tracked and no
\* reallocation
AllocatesOnly ==
    IF call'.ret = nullptr
    THEN /\ tracker' = tracker
         /\ heap' = heap
         /\ BagCardinality(reports') = 1
         /\ \A r \in BagToSet(reports') : r.function = "alloc_static"
    ELSE \E n \in Sizes :
            /\ call'.track = Tracked("track_allocation", 0, n)
            /\ tracker' = TrackerType_track_allocation(Config, tracker, n)
            /\ get_stats(Config, tracker').reallocation_count
                  = get_stats(Config, tracker).reallocation_count
            /\ Tracking =>
                  /\ get_allocation_count(Config, tracker')
                        = (get_allocation_count(Config, tracker) + 1) % Mod
                  /\ get_current_usage(Config, tracker')
                        = (get_current_usage(Config, tracker) + n) % Mod
            /\ call'.ret \notin DOMAIN heap
            /\ heap' = Put(heap, call'.ret, IF call'.prepad THEN PaddedBlock(n)
                                                           ELSE PlainBlock(n))
            /\ call'.prepad => heap'[call'.ret].size_hdr = n
            /\ reports' = EmptyBag

\* C19: realloc_static(nullptr, n, pad) gives the kind of result and has the
\* effect on the tracker and on the header that alloc_static(n, pad) has
C19_ReallocNullIsAlloc ==
    [][/\ call'.op = "alloc_static" => AllocatesOnly
       /\ (call'.op = "realloc_static" /\ call'.null) => AllocatesOnly]_vars

\* realloc_static(nullptr, ...) has allocated a second block, with padding
C19_Witness ==
    /\ call.op = "realloc_static" /\ call.null
    /\ call.ret \in DOMAIN heap
    /\ call.prepad
    /\ Tracking
    /\ get_allocation_count(Config, tracker) = 2
    /\ get_stats(Config, tracker).reallocation_count = 0

\* realloc_static on the padded block at p read the old size from its header
\* and reported track_reallocation(old, new)
ReportsOldFromHeader(p) ==
    /\ heap[p].prepad
    /\ call'.track = Tracked("track_reallocation", heap[p].size_hdr,
                             call'.track[1].size)
    /\ tracker' = TrackerType_track_reallocation(Config, tracker, heap[p].size_hdr,
                                                 call'.track[1].size)

\* the block at p was freed and null returned
FreedOnZero(p) ==
    /\ heap' = Drop(heap, p)
    /\ call'.ret = nullptr
    /\ reports' = EmptyBag

\* the block at p was resized, in place or moved: the pointer returned is
\* the one past the header of a block whose header holds the new size
ResizedTo(p, new) ==
    /\ call'.ret # nullptr
    /\ call'.ret \notin DOMAIN heap \ { p }
    /\ heap' = Put(Drop(heap, p), call'.ret, PaddedBlock(new))
    /\ heap'[call'.ret].size_hdr = new
    /\ reports' = EmptyBag

\* std::realloc failed: null returned with one error report, the block at
\* p left as it was but for its header
ResizeFailed(p, new) ==
    /\ call'.ret = nullptr
    /\ heap' = [ heap EXCEPT ![p].size_hdr = new ]
    /\ BagCardinality(reports') = 1
    /\ \A r \in BagToSet(reports') :
          r.type = "MEM_ERROR" /\ r.function = "realloc_static"

\* C20 as stated: with padding in effect and a non-null pointer,
\* realloc_static reads the old size from the header and reports
\* track_reallocation(old, new); then for new_size 0 it frees the block and
\* returns null, otherwise it resizes the block, leaves the header holding
\* new_size and returns the pointer past the header of the block
C20_PaddedRealloc_Original ==
    [][(ReallocLive /\ call'.prepad) =>
          \E p \in DOMAIN heap :
             /\ ReportsOldFromHeader(p)
             /\ IF call'.track[1].size = 0 THEN FreedOnZero(p)
                ELSE ResizedTo(p, call'.track[1].size)]_vars

\* C20 amended: the same, where for a nonzero new_size the system allocator
\* may fail, and then null is returned with an error report, the tracker
\* keeps the reallocation reported and the block stays, its header holding
\* new_size
C20_PaddedRealloc ==
    [][(ReallocLive /\ call'.prepad) =>
          \E p \in DOMAIN heap :
             /\ ReportsOldFromHeader(p)
             /\ IF call'.track[1].size = 0 THEN FreedOnZero(p)
                ELSE \/ ResizedTo(p, call'.track[1].size)
                     \/ ResizeFailed(p, call'.track[1].size)]_vars

\* a padded block of 1 byte was moved by a reallocation to MaxSize bytes
C20_Witness ==
    /\ call.op = "realloc_static" /\ ~call.null /\ call.prepad
    /\ call.ret \in DOMAIN heap
    /\ call.was = 1
    /\ heap[call.ret].size_hdr = MaxSize
    /\ call.track = Tracked("track_reallocation", 1, MaxSize)
    /\ Tracking
    /\ get_current_usage(Config, tracker) = MaxSize

(***************************************************************************)
(* Properties of the engine: sizes reported without a header (SpecSizes).  *)
(***************************************************************************)
\* the step is a free_static of a block without padding in effect, or a
\* free_aligned_static
FreeUnpadded ==
    \/ call'.op = "free_static" /\ ~call'.null /\ ~call'.prepad
    \/ call'.op = "free_aligned_static"

\* C21: when padding is not in effect free_static, and free_aligned_static
\* always, report size 0 to the tracker and realloc_static reports old size
\* 0; under aggregate or detailed tracking such a free leaves current_usage
\* and peak_usage unchanged and adds one to deallocation_count, and such a
\* reallocation to n bytes adds n to current_usage
C21_UnpaddedSizes ==
    [][/\ FreeUnpadded =>
             /\ call'.track = Tracked("track_deallocation", 0, 0)
             /\ Tracking =>
                   /\ get_current_usage(Config, tracker')
                         = get_current_usage(Config, tracker)
                   /\ get_peak_usage(Config, tracker')
                         = get_peak_usage(Config, tracker)
                   /\ get_stats(Config, tracker').deallocation_count
                         = (get_stats(Config, tracker).deallocation_count + 1) % Mod
       /\ (ReallocLive /\ ~call'.prepad) =>
             /\ call'.track = Tracked("track_reallocation", 0, call'.track[1].size)
             /\ Tracking =>
                   get_current_usage(Config, tracker')
                      = (get_current_usage(Config, tracker) + call'.track[1].size)
                        % Mod]_vars

\* with padding never in effect a block was allocated, reallocated and
\* freed, then an aligned block was allocated and freed: nothing is live,
\* two deallocations are counted and the usage still stands at its peak
C21_Witness ==
    /\ call.op = "free_aligned_static"
    /\ Tracking
    /\ Config = ThreadSafeConfig(FALSE)
    /\ DOMAIN heap = {}
    /\ hist.reallocs = 1
    /\ get_stats(Config, tracker).deallocation_count = 2
    /\ get_current_usage(Config, tracker) = get_peak_usage(Config, tracker)
    /\ get_current_usage(Config, tracker) > MaxSize

(***************************************************************************)
(* Properties of the tracker: track_reallocation.                          *)
(***************************************************************************)
\* the largest of two values
Larger(a, b) == IF a > b THEN a ELSE b

\* the usage and the peak after track_reallocation(old, new) as described:
\* the difference added (and the peak raised to the new usage if that is
\* above it) or subtracted
UsageAfterRealloc(s, old, new) ==
    IF new > old
    THEN LET u == (s.current_usage + (new - old)) % Mod
         IN  [ current_usage |-> u, peak_usage |-> Larger(s.peak_usage, u) ]
    ELSE [ current_usage |-> (s.current_usage + Mod - (old - new)) % Mod,
           peak_usage |-> s.peak_usage ]

\* C22: a direct track_reallocation(old, new) of a counting strategy adds
\* new - old to the current usage when new > old, raising the peak to the new
\* usage if that exceeds it, subtracts old - new when old > new, leaves the
\* usage as it is when they are equal; in all three cases the reallocation
\* count goes up by exactly one and the allocation and deallocation counts
\* stay as they are
C22_TrackReallocation ==
    [][call'.op = "track_reallocation" =>
          LET old == call'.track[1].old_size
              new == call'.track[1].size
              s == get_stats(Config, tracker)
              t == get_stats(Config, tracker')
              u == UsageAfterRealloc(s, old, new)
          IN  /\ t.current_usage = u.current_usage
              /\ t.peak_usage = u.peak_usage
              /\ t.reallocation_count = (s.reallocation_count + 1) % Mod
              /\ t.allocation_count = s.allocation_count
              /\ t.deallocation_count = s.deallocation_count]_vars

\* the aggregate strategy after track_allocation(MaxSize) and
\* track_reallocation(MaxSize, 1): usage 1, peak MaxSize, one reallocation
C22_Witness ==
    /\ Config = ThreadSafeConfig(TRUE)
    /\ call.op = "track_reallocation"
    /\ call.track = Tracked("track_reallocation", MaxSize, 1)
    /\ get_stats(Config, tracker).current_usage = 1
    /\ get_stats(Config, tracker).peak_usage = MaxSize
    /\ get_stats(Config, tracker).reallocation_count = 1
    /\ get_stats(Config, tracker).allocation_count = 1
    /\ get_stats(Config, tracker).deallocation_count = 0

C10_HeaderHoldsRequested ==
    /\ \A p \in DOMAIN heap : heap[p].prepad => heap[p].size_hdr = requested[p]
    /\ (call.op = "free_static" /\ ~call.null /\ call.prepad) =>
          call.track = Tracked("track_deallocation", 0, call.was)

\* a padded block was reallocated to another size and its pointer returned
C10_Witness ==
    /\ call.op = "realloc_static"
    /\ call.prepad
    /\ call.ret # nullptr
    /\ requested[call.ret] # call.was
    /\ heap[call.ret].size_hdr = requested[call.ret]

=============================================================================
